---------------------------- MODULE Spec2Model ----------------------------
(***************************************************************************)
(* A model of the PyplotExercises notebooks.                               *)
(*                                                                         *)
(* Four state machines share this module:                                 *)
(*   SpecKernel    - a notebook kernel running the code cells of one of    *)
(*                   the nine notebooks, statement by statement, with the  *)
(*                   names each statement reads, binds and modifies;       *)
(*   SpecPyplot    - the figures, axes, artists and legends the plotting   *)
(*                   cells of the notebooks build, with pyplot's current   *)
(*                   figure / current axes bookkeeping;                    *)
(*   SpecHistogram - the binning computed by np.histogram(data, bins=5);   *)
(*   SpecLayout    - the positions of the axes and texts that the cells of *)
(*                   the Multiple Subplots and Text and Annotation         *)
(*                   notebooks place on their figures.                     *)
(***************************************************************************)
EXTENDS Integers, Sequences, FiniteSets, TLC

VARIABLES
  \* ---- kernel ----
  notebook,    \* name of the notebook being run
  cellIx,      \* index of the code cell being run
  stmtIx,      \* index, inside the cell, of the next statement to run
  status,      \* "run", "error" (a statement raised), "done" (last cell finished)
  user_ns,     \* the kernel namespace: bound name -> index of the cell that bound it
  funcs,       \* defined function / lambda name -> free names of its body
  executed,    \* source lines of the statements run so far, in execution order
  raised,      \* [line, kind] of the exception that stopped the run, or NoError
  sharedMut,   \* names a cell rebound or modified after an earlier cell bound them
               \* while another cell reads them
  \* ---- pyplot ----
  prog,        \* name of the notebook whose plotting cells are run
  pc,          \* index of the next plotting operation of that notebook
  pyplot,      \* figures, axes and artists, and the figures pyplot manages
  refs,        \* the notebook variables fig, ax, lines, leg (object ids)
  shown,       \* the pictures the cells have displayed, in order
  \* ---- histogram ----
  data,        \* the array handed to np.histogram
  counts,      \* the counts it returned (<< >> before the call)
  bin_edges,   \* the edges it returned (<< >> before the call)
  \* ---- layout ----
  book,        \* name of the notebook whose layout cells are run
  step,        \* index of the next layout operation of that notebook
  canvas,      \* figures and axes with their positions, limits and texts
  bound,       \* the notebook variables fig, ax, ax1, ax2, ... (object ids)
  output,      \* the pictures the cells have displayed, with positions
  failure      \* "" or the exception that stopped the run

kernelVars == << notebook, cellIx, stmtIx, status, user_ns, funcs, executed, raised, sharedMut >>
plotVars == << prog, pc, pyplot, refs, shown >>
histVars == << data, counts, bin_edges >>
layoutVars == << book, step, canvas, bound, output, failure >>
vars == << notebook, cellIx, stmtIx, status, user_ns, funcs, executed, raised, sharedMut,
           prog, pc, pyplot, refs, shown, data, counts, bin_edges,
           book, step, canvas, bound, output, failure >>

(***************************************************************************)
(* The notebooks.  A statement is a top-level statement of a code cell     *)
(* (a for loop with its body is one statement, a def with its body too):   *)
(*   line   - source line of the .ipynb file it starts on                  *)
(*   kind   - "import", "assign", "expr", "for", "def", "magic" (%...),    *)
(*            "shell" (!...)                                               *)
(*   reads  - names it loads before binding them itself                    *)
(*   binds  - names it binds (assignment targets, imports, loop targets)   *)
(*   mut    - names whose object it modifies in place (item or attribute   *)
(*            assignment, +=, a drawing or fitting method called on it)    *)
(*   defers - free names of a def / lambda body, resolved at call time     *)
(*   ext    - it calls into an external library (and so can raise there)   *)
(***************************************************************************)
St(line, kind, reads, binds, mut, defers, ext) ==
  [line |-> line, kind |-> kind, reads |-> reads, binds |-> binds,
   mut |-> mut, defers |-> defers, ext |-> ext]

\* 04.00-Introduction-To-Matplotlib.ipynb: the code cells of the notebook, one tuple per cell, one St per top-level statement.
Introduction ==
  << << St(58, "import", {}, {"mpl"}, {}, {}, TRUE),
        St(59, "import", {}, {"plt"}, {}, {}, TRUE) >>,
     << St(85, "expr", {"plt"}, {}, {}, {}, TRUE) >>,
     << St(194, "magic", {}, {}, {}, {}, FALSE) >>,
     << St(215, "import", {}, {"np"}, {}, {}, TRUE),
        St(216, "assign", {"np"}, {"x"}, {}, {}, TRUE),
        St(218, "assign", {"plt"}, {"fig"}, {}, {}, TRUE),
        St(219, "expr", {"np", "plt", "x"}, {}, {}, {}, TRUE),
        St(220, "expr", {"np", "plt", "x"}, {}, {}, {}, TRUE) >>,
     << St(245, "expr", {"fig"}, {}, {}, {}, TRUE) >>,
     << St(266, "shell", {}, {}, {}, {}, FALSE) >>,
     << St(287, "import", {}, {"Image"}, {}, {}, TRUE),
        St(288, "expr", {"Image"}, {}, {}, {}, TRUE) >>,
     << St(311, "expr", {"fig"}, {}, {}, {}, TRUE) >>,
     << St(352, "expr", {"plt"}, {}, {}, {}, TRUE),
        St(355, "expr", {"plt"}, {}, {}, {}, TRUE),
        St(356, "expr", {"np", "plt", "x"}, {}, {}, {}, TRUE),
        St(359, "expr", {"plt"}, {}, {}, {}, TRUE),
        St(360, "expr", {"np", "plt", "x"}, {}, {}, {}, TRUE) >>,
     << St(400, "assign", {"plt"}, {"ax", "fig"}, {}, {}, TRUE),
        St(403, "expr", {"ax", "np", "x"}, {}, {"ax"}, {}, TRUE),
        St(404, "expr", {"ax", "np", "x"}, {}, {"ax"}, {}, TRUE) >> >>

\* 04.02-Simple-Scatter-Plots.ipynb: the code cells of the notebook, one tuple per cell, one St per top-level statement.
ScatterPlots ==
  << << St(25, "magic", {}, {}, {}, {}, FALSE),
        St(26, "import", {}, {"plt"}, {}, {}, TRUE),
        St(27, "expr", {"plt"}, {}, {}, {}, TRUE),
        St(28, "import", {}, {"np"}, {}, {}, TRUE) >>,
     << St(52, "assign", {"np"}, {"x"}, {}, {}, TRUE),
        St(53, "assign", {"np", "x"}, {"y"}, {}, {}, TRUE),
        St(55, "expr", {"plt", "x", "y"}, {}, {}, {}, TRUE) >>,
     << St(76, "assign", {"np"}, {"rng"}, {}, {}, TRUE),
        St(77, "for", {"plt", "rng"}, {"marker"}, {"rng"}, {}, TRUE),
        St(80, "expr", {"plt"}, {}, {}, {}, TRUE),
        St(81, "expr", {"plt"}, {}, {}, {}, TRUE) >>,
     << St(102, "expr", {"plt", "x", "y"}, {}, {}, {}, TRUE) >>,
     << St(123, "expr", {"plt", "x", "y"}, {}, {}, {}, TRUE),
        St(128, "expr", {"plt"}, {}, {}, {}, TRUE) >>,
     << St(159, "expr", {"plt", "x", "y"}, {}, {}, {}, TRUE) >>,
     << St(183, "assign", {"np"}, {"rng"}, {}, {}, TRUE),
        St(184, "assign", {"rng"}, {"x"}, {"rng"}, {}, TRUE),
        St(185, "assign", {"rng"}, {"y"}, {"rng"}, {}, TRUE),
        St(186, "assign", {"rng"}, {"colors"}, {"rng"}, {}, TRUE),
        St(187, "assign", {"rng"}, {"sizes"}, {"rng"}, {}, TRUE),
        St(189, "expr", {"colors", "plt", "sizes", "x", "y"}, {}, {}, {}, TRUE),
        St(191, "expr", {"plt"}, {}, {}, {}, TRUE) >>,
     << St(215, "shell", {}, {}, {}, {}, FALSE) >>,
     << St(229, "import", {}, {"load_iris"}, {}, {}, TRUE),
        St(230, "assign", {"load_iris"}, {"iris"}, {}, {}, TRUE),
        St(231, "assign", {"iris"}, {"features"}, {}, {}, FALSE),
        St(233, "expr", {"features", "iris", "plt"}, {}, {}, {}, TRUE),
        St(235, "expr", {"iris", "plt"}, {}, {}, {}, TRUE),
        St(236, "expr", {"iris", "plt"}, {}, {}, {}, TRUE) >> >>

\* 04.04-Density-and-Contour-Plots.ipynb: the code cells of the notebook, one tuple per cell, one St per top-level statement.
ContourPlots ==
  << << St(25, "magic", {}, {}, {}, {}, FALSE),
        St(26, "import", {}, {"plt"}, {}, {}, TRUE),
        St(27, "expr", {"plt"}, {}, {}, {}, TRUE),
        St(28, "import", {}, {"np"}, {}, {}, TRUE) >>,
     << St(56, "def", {}, {"f"}, {}, {"np"}, FALSE) >>,
     << St(81, "assign", {"np"}, {"x"}, {}, {}, TRUE),
        St(82, "assign", {"np"}, {"y"}, {}, {}, TRUE),
        St(84, "assign", {"np", "x", "y"}, {"X", "Y"}, {}, {}, TRUE),
        St(85, "assign", {"X", "Y", "f"}, {"Z"}, {}, {}, TRUE) >>,
     << St(106, "expr", {"X", "Y", "Z", "plt"}, {}, {}, {}, TRUE) >>,
     << St(129, "expr", {"X", "Y", "Z", "plt"}, {}, {}, {}, TRUE) >>,
     << St(159, "expr", {"X", "Y", "Z", "plt"}, {}, {}, {}, TRUE),
        St(160, "expr", {"plt"}, {}, {}, {}, TRUE) >>,
     << St(187, "expr", {"Z", "plt"}, {}, {}, {}, TRUE),
        St(189, "expr", {"plt"}, {}, {}, {}, TRUE),
        St(190, "expr", {"plt"}, {}, {}, {}, TRUE),
        St(191, "expr", {"plt"}, {}, {}, {}, TRUE) >>,
     << St(224, "assign", {"X", "Y", "Z", "plt"}, {"contours"}, {}, {}, TRUE),
        St(225, "expr", {"contours", "plt"}, {}, {}, {}, TRUE),
        St(227, "expr", {"Z", "plt"}, {}, {}, {}, TRUE),
        St(229, "expr", {"plt"}, {}, {}, {}, TRUE) >> >>

\* 04.05-Histograms-and-Binnings.ipynb: the code cells of the notebook, one tuple per cell, one St per top-level statement.
Histograms ==
  << << St(24, "magic", {}, {}, {}, {}, FALSE),
        St(25, "import", {}, {"np"}, {}, {}, TRUE),
        St(26, "import", {}, {"plt"}, {}, {}, TRUE),
        St(27, "expr", {"plt"}, {}, {}, {}, TRUE),
        St(29, "assign", {"np"}, {"data"}, {}, {}, TRUE) >>,
     << St(43, "expr", {"data", "plt"}, {}, {}, {}, TRUE) >>,
     << St(65, "expr", {"data", "plt"}, {}, {}, {}, TRUE) >>,
     << St(89, "assign", {"np"}, {"x1"}, {}, {}, TRUE),
        St(90, "assign", {"np"}, {"x2"}, {}, {}, TRUE),
        St(91, "assign", {"np"}, {"x3"}, {}, {}, TRUE),
        St(93, "assign", {}, {"kwargs"}, {}, {}, FALSE),
        St(95, "expr", {"kwargs", "plt", "x1"}, {}, {}, {}, TRUE),
        St(96, "expr", {"kwargs", "plt", "x2"}, {}, {}, {}, TRUE),
        St(97, "expr", {"kwargs", "plt", "x3"}, {}, {}, {}, TRUE) >>,
     << St(118, "assign", {"data", "np"}, {"bin_edges", "counts"}, {}, {}, TRUE),
        St(119, "expr", {"counts"}, {}, {}, {}, FALSE) >>,
     << St(144, "assign", {}, {"mean"}, {}, {}, FALSE),
        St(145, "assign", {}, {"cov"}, {}, {}, FALSE),
        St(146, "assign", {"cov", "mean", "np"}, {"x", "y"}, {}, {}, TRUE) >>,
     << St(169, "expr", {"plt", "x", "y"}, {}, {}, {}, TRUE),
        St(170, "assign", {"plt"}, {"cb"}, {}, {}, TRUE),
        St(171, "expr", {"cb"}, {}, {"cb"}, {}, TRUE) >>,
     << St(193, "assign", {"np", "x", "y"}, {"counts", "xedges", "yedges"}, {}, {}, TRUE) >>,
     << St(225, "expr", {"plt", "x", "y"}, {}, {}, {}, TRUE),
        St(226, "assign", {"plt"}, {"cb"}, {}, {}, TRUE) >>,
     << St(259, "import", {}, {"gaussian_kde"}, {}, {}, TRUE),
        St(262, "assign", {"np", "x", "y"}, {"data"}, {}, {}, TRUE),
        St(263, "assign", {"data", "gaussian_kde"}, {"kde"}, {}, {}, TRUE),
        St(266, "assign", {"np"}, {"xgrid"}, {}, {}, TRUE),
        St(267, "assign", {"np"}, {"ygrid"}, {}, {}, TRUE),
        St(268, "assign", {"np", "xgrid", "ygrid"}, {"Xgrid", "Ygrid"}, {}, {}, TRUE),
        St(269, "assign", {"Xgrid", "Ygrid", "kde", "np"}, {"Z"}, {}, {}, TRUE),
        St(272, "expr", {"Xgrid", "Z", "plt"}, {}, {}, {}, TRUE),
        St(276, "assign", {"plt"}, {"cb"}, {}, {}, TRUE),
        St(277, "expr", {"cb"}, {}, {"cb"}, {}, TRUE) >> >>

\* 04.06-Customizing-Legends.ipynb: the code cells of the notebook, one tuple per cell, one St per top-level statement.
Legends ==
  << << St(26, "import", {}, {"plt"}, {}, {}, TRUE),
        St(27, "expr", {"plt"}, {}, {}, {}, TRUE) >>,
     << St(36, "magic", {}, {}, {}, {}, FALSE),
        St(37, "import", {}, {"np"}, {}, {}, TRUE) >>,
     << St(51, "assign", {"np"}, {"x"}, {}, {}, TRUE),
        St(52, "assign", {"plt"}, {"ax", "fig"}, {}, {}, TRUE),
        St(53, "expr", {"ax", "np", "x"}, {}, {"ax"}, {}, TRUE),
        St(54, "expr", {"ax", "np", "x"}, {}, {"ax"}, {}, TRUE),
        St(55, "expr", {"ax"}, {}, {"ax"}, {}, TRUE),
        St(56, "assign", {"ax"}, {"leg"}, {"ax"}, {}, TRUE) >>,
     << St(78, "expr", {"ax"}, {}, {"ax"}, {}, TRUE),
        St(79, "expr", {"fig"}, {}, {}, {}, FALSE) >>,
     << St(100, "expr", {"ax"}, {}, {"ax"}, {}, TRUE),
        St(101, "expr", {"fig"}, {}, {}, {}, FALSE) >>,
     << St(122, "expr", {"ax"}, {}, {"ax"}, {}, TRUE),
        St(123, "expr", {"fig"}, {}, {}, {}, FALSE) >>,
     << St(156, "assign", {"np", "x"}, {"y"}, {}, {}, TRUE),
        St(157, "assign", {"plt", "x", "y"}, {"lines"}, {}, {}, TRUE),
        St(160, "expr", {"lines", "plt"}, {}, {}, {}, TRUE) >>,
     << St(181, "expr", {"plt", "x", "y"}, {}, {}, {}, TRUE),
        St(182, "expr", {"plt", "x", "y"}, {}, {}, {}, TRUE),
        St(183, "expr", {"plt", "x", "y"}, {}, {}, {}, TRUE),
        St(184, "expr", {"plt"}, {}, {}, {}, TRUE) >>,
     << St(217, "import", {}, {"pd"}, {}, {}, TRUE),
        St(218, "assign", {"pd"}, {"cities"}, {}, {}, TRUE),
        St(221, "assign", {"cities"}, {"lat", "lon"}, {}, {}, FALSE),
        St(222, "assign", {"cities"}, {"area", "population"}, {}, {}, FALSE),
        St(225, "expr", {"area", "lat", "lon", "np", "plt", "population"}, {}, {}, {}, TRUE),
        St(228, "expr", {"plt"}, {}, {}, {}, TRUE),
        St(229, "expr", {"plt"}, {}, {}, {}, TRUE),
        St(230, "expr", {"plt"}, {}, {}, {}, TRUE),
        St(231, "expr", {"plt"}, {}, {}, {}, TRUE),
        St(232, "expr", {"plt"}, {}, {}, {}, TRUE),
        St(236, "for", {"plt"}, {"area"}, {}, {}, TRUE),
        St(239, "expr", {"plt"}, {}, {}, {}, TRUE),
        St(241, "expr", {"plt"}, {}, {}, {}, TRUE) >>,
     << St(282, "assign", {"plt"}, {"ax", "fig"}, {}, {}, TRUE),
        St(284, "assign", {}, {"lines"}, {}, {}, FALSE),
        St(285, "assign", {}, {"styles"}, {}, {}, FALSE),
        St(286, "assign", {"np"}, {"x"}, {}, {}, TRUE),
        St(288, "for", {"ax", "lines", "np", "styles", "x"}, {"i", "lines"}, {"ax", "lines"}, {}, TRUE),
        St(291, "expr", {"ax"}, {}, {"ax"}, {}, TRUE),
        St(294, "expr", {"ax", "lines"}, {}, {"ax"}, {}, TRUE),
        St(298, "import", {}, {"Legend"}, {}, {}, TRUE),
        St(299, "assign", {"Legend", "ax", "lines"}, {"leg"}, {}, {}, TRUE),
        St(301, "expr", {"ax", "leg"}, {}, {"ax"}, {}, TRUE) >> >>

\* 04.07-Customizing-Colorbars.ipynb: the code cells of the notebook, one tuple per cell, one St per top-level statement.
Colorbars ==
  << << St(27, "import", {}, {"plt"}, {}, {}, TRUE),
        St(28, "expr", {"plt"}, {}, {}, {}, TRUE) >>,
     << St(42, "magic", {}, {}, {}, {}, FALSE),
        St(43, "import", {}, {"np"}, {}, {}, TRUE) >>,
     << St(64, "assign", {"np"}, {"x"}, {}, {}, TRUE),
        St(65, "assign", {"np", "x"}, {"I"}, {}, {}, TRUE),
        St(67, "expr", {"I", "plt"}, {}, {}, {}, TRUE),
        St(68, "expr", {"plt"}, {}, {}, {}, TRUE) >>,
     << St(98, "expr", {"I", "plt"}, {}, {}, {}, TRUE) >>,
     << St(146, "import", {}, {"LinearSegmentedColormap"}, {}, {}, TRUE),
        St(148, "def", {}, {"grayscale_cmap"}, {}, {"LinearSegmentedColormap", "np", "plt"}, FALSE),
        St(162, "def", {}, {"view_colormap"}, {}, {"grayscale_cmap", "np", "plt"}, FALSE) >>,
     << St(187, "expr", {"view_colormap"}, {}, {}, {}, TRUE) >>,
     << St(211, "expr", {"view_colormap"}, {}, {}, {}, TRUE) >>,
     << St(232, "expr", {"view_colormap"}, {}, {}, {}, TRUE) >>,
     << St(253, "expr", {"view_colormap"}, {}, {}, {}, TRUE) >>,
     << St(289, "assign", {"I", "np"}, {"speckles"}, {}, {}, TRUE),
        St(290, "assign", {"I", "np", "speckles"}, {}, {"I"}, {}, TRUE),
        St(292, "expr", {"plt"}, {}, {}, {}, TRUE),
        St(294, "expr", {"plt"}, {}, {}, {}, TRUE),
        St(295, "expr", {"I", "plt"}, {}, {}, {}, TRUE),
        St(296, "expr", {"plt"}, {}, {}, {}, TRUE),
        St(298, "expr", {"plt"}, {}, {}, {}, TRUE),
        St(299, "expr", {"I", "plt"}, {}, {}, {}, TRUE),
        St(300, "expr", {"plt"}, {}, {}, {}, TRUE),
        St(301, "expr", {"plt"}, {}, {}, {}, TRUE) >>,
     << St(334, "expr", {"I", "plt"}, {}, {}, {}, TRUE),
        St(335, "expr", {"plt"}, {}, {}, {}, TRUE),
        St(336, "expr", {"plt"}, {}, {}, {}, TRUE) >>,
     << St(370, "import", {}, {"load_digits"}, {}, {}, TRUE),
        St(371, "assign", {"load_digits"}, {"digits"}, {}, {}, TRUE),
        St(373, "assign", {"plt"}, {"ax", "fig"}, {}, {}, TRUE),
        St(374, "for", {"ax", "digits"}, {"axi", "i"}, {}, {}, TRUE) >>,
     << St(403, "import", {}, {"Isomap"}, {}, {}, TRUE),
        St(404, "assign", {"Isomap"}, {"iso"}, {}, {}, TRUE),
        St(405, "assign", {"digits", "iso"}, {"projection"}, {"iso"}, {}, TRUE) >>,
     << St(427, "expr", {"digits", "plt", "projection"}, {}, {}, {}, TRUE),
        St(429, "expr", {"plt"}, {}, {}, {}, TRUE),
        St(430, "expr", {"plt"}, {}, {}, {}, TRUE) >> >>

\* unnamed/part_000: the code cells of the notebook, one tuple per cell, one St per top-level statement.
Subplots ==
  << << St(26, "magic", {}, {}, {}, {}, FALSE),
        St(27, "import", {}, {"plt"}, {}, {}, TRUE),
        St(28, "expr", {"plt"}, {}, {}, {}, TRUE),
        St(29, "import", {}, {"np"}, {}, {}, TRUE) >>,
     << St(57, "assign", {"plt"}, {"ax1"}, {}, {}, TRUE),
        St(58, "assign", {"plt"}, {"ax2"}, {}, {}, TRUE) >>,
     << St(79, "assign", {"plt"}, {"fig"}, {}, {}, TRUE),
        St(80, "assign", {"fig"}, {"ax1"}, {"fig"}, {}, TRUE),
        St(82, "assign", {"fig"}, {"ax2"}, {"fig"}, {}, TRUE),
        St(85, "assign", {"np"}, {"x"}, {}, {}, TRUE),
        St(86, "expr", {"ax1", "np", "x"}, {}, {"ax1"}, {}, TRUE),
        St(87, "expr", {"ax2", "np", "x"}, {}, {"ax2"}, {}, TRUE) >>,
     << St(119, "for", {"plt"}, {"i"}, {}, {}, TRUE) >>,
     << St(144, "assign", {"plt"}, {"fig"}, {}, {}, TRUE),
        St(145, "expr", {"fig"}, {}, {"fig"}, {}, TRUE),
        St(146, "for", {"fig"}, {"ax", "i"}, {"fig"}, {}, TRUE) >>,
     << St(183, "assign", {"plt"}, {"ax", "fig"}, {}, {}, TRUE) >>,
     << St(206, "for", {"ax"}, {"i", "j"}, {"ax"}, {}, TRUE),
        St(210, "expr", {"fig"}, {}, {}, {}, FALSE) >>,
     << St(242, "assign", {"plt"}, {"grid"}, {}, {}, TRUE) >>,
     << St(263, "expr", {"grid", "plt"}, {}, {}, {}, TRUE),
        St(264, "expr", {"grid", "plt"}, {}, {}, {}, TRUE),
        St(265, "expr", {"grid", "plt"}, {}, {}, {}, TRUE),
        St(266, "expr", {"grid", "plt"}, {}, {}, {}, TRUE) >>,
     << St(289, "assign", {}, {"mean"}, {}, {}, FALSE),
        St(290, "assign", {}, {"cov"}, {}, {}, FALSE),
        St(291, "assign", {"cov", "mean", "np"}, {"x", "y"}, {}, {}, TRUE),
        St(294, "assign", {"plt"}, {"fig"}, {}, {}, TRUE),
        St(295, "assign", {"plt"}, {"grid"}, {}, {}, TRUE),
        St(296, "assign", {"fig", "grid"}, {"main_ax"}, {"fig"}, {}, TRUE),
        St(297, "assign", {"fig", "grid", "main_ax"}, {"y_hist"}, {"fig"}, {}, TRUE),
        St(298, "assign", {"fig", "grid", "main_ax"}, {"x_hist"}, {"fig"}, {}, TRUE),
        St(301, "expr", {"main_ax", "x", "y"}, {}, {"main_ax"}, {}, TRUE),
        St(304, "expr", {"x", "x_hist"}, {}, {"x_hist"}, {}, TRUE),
        St(306, "expr", {"x_hist"}, {}, {"x_hist"}, {}, TRUE),
        St(308, "expr", {"y", "y_hist"}, {}, {"y_hist"}, {}, TRUE),
        St(310, "expr", {"y_hist"}, {}, {"y_hist"}, {}, TRUE) >> >>

\* unnamed/part_000: the code cells of the notebook, one tuple per cell, one St per top-level statement.
TextAnnotation ==
  << << St(363, "magic", {}, {}, {}, {}, FALSE),
        St(364, "import", {}, {"plt"}, {}, {}, TRUE),
        St(365, "import", {}, {"mpl"}, {}, {}, TRUE),
        St(366, "expr", {"plt"}, {}, {}, {}, TRUE),
        St(367, "import", {}, {"np"}, {}, {}, TRUE),
        St(368, "import", {}, {"pd"}, {}, {}, TRUE) >>,
     << St(393, "assign", {"pd"}, {"births"}, {}, {}, TRUE),
        St(395, "assign", {"births", "np"}, {"quartiles"}, {}, {}, TRUE),
        St(396, "assign", {"quartiles"}, {"mu", "sig"}, {}, {}, FALSE),
        St(397, "assign", {"births", "mu", "sig"}, {"births"}, {}, {}, TRUE),
        St(399, "assign", {"births"}, {}, {"births"}, {}, TRUE),
        St(401, "assign", {"births", "pd"}, {}, {"births"}, {}, TRUE),
        St(404, "assign", {"births"}, {"births_by_date"}, {}, {}, TRUE),
        St(406, "assign", {"births_by_date", "pd"}, {}, {"births_by_date"}, {}, TRUE) >>,
     << St(421, "assign", {"plt"}, {"ax", "fig"}, {}, {}, TRUE),
        St(422, "expr", {"ax", "births_by_date"}, {}, {"ax"}, {}, TRUE) >>,
     << St(444, "assign", {"plt"}, {"ax", "fig"}, {}, {}, TRUE),
        St(445, "expr", {"ax", "births_by_date"}, {}, {"ax"}, {}, TRUE),
        St(448, "assign", {}, {"style"}, {}, {}, FALSE),
        St(450, "expr", {"ax", "style"}, {}, {"ax"}, {}, TRUE),
        St(451, "expr", {"ax", "style"}, {}, {"ax"}, {}, TRUE),
        St(452, "expr", {"ax", "style"}, {}, {"ax"}, {}, TRUE),
        St(453, "expr", {"ax", "style"}, {}, {"ax"}, {}, TRUE),
        St(454, "expr", {"ax", "style"}, {}, {"ax"}, {}, TRUE),
        St(455, "expr", {"ax", "style"}, {}, {"ax"}, {}, TRUE),
        St(458, "expr", {"ax"}, {}, {"ax"}, {}, TRUE),
        St(462, "expr", {"ax", "mpl"}, {}, {"ax"}, {}, TRUE),
        St(463, "expr", {"ax", "mpl"}, {}, {"ax"}, {}, TRUE),
        St(464, "expr", {"ax", "plt"}, {}, {"ax"}, {}, TRUE),
        St(465, "expr", {"ax", "mpl"}, {}, {"ax"}, {}, TRUE) >>,
     << St(509, "assign", {"plt"}, {"ax", "fig"}, {}, {}, TRUE),
        St(510, "expr", {"ax"}, {}, {"ax"}, {}, TRUE),
        St(513, "expr", {"ax"}, {}, {"ax"}, {}, TRUE),
        St(514, "expr", {"ax"}, {}, {"ax"}, {}, TRUE),
        St(515, "expr", {"ax", "fig"}, {}, {"ax"}, {}, TRUE) >>,
     << St(542, "expr", {"ax"}, {}, {"ax"}, {}, TRUE),
        St(543, "expr", {"ax"}, {}, {"ax"}, {}, TRUE),
        St(544, "expr", {"fig"}, {}, {}, {}, FALSE) >>,
     << St(581, "magic", {}, {}, {}, {}, FALSE),
        St(583, "assign", {"plt"}, {"ax", "fig"}, {}, {}, TRUE),
        St(585, "assign", {"np"}, {"x"}, {}, {}, TRUE),
        St(586, "expr", {"ax", "np", "x"}, {}, {"ax"}, {}, TRUE),
        St(587, "expr", {"ax"}, {}, {"ax"}, {}, TRUE),
        St(589, "expr", {"ax"}, {}, {"ax"}, {}, TRUE),
        St(592, "expr", {"ax", "np"}, {}, {"ax"}, {}, TRUE) >>,
     << St(617, "assign", {"plt"}, {"ax", "fig"}, {}, {}, TRUE),
        St(618, "expr", {"ax", "births_by_date"}, {}, {"ax"}, {}, TRUE),
        St(621, "expr", {"ax"}, {}, {"ax"}, {}, TRUE),
        St(626, "expr", {"ax"}, {}, {"ax"}, {}, TRUE),
        St(631, "expr", {"ax"}, {}, {"ax"}, {}, TRUE),
        St(633, "expr", {"ax"}, {}, {"ax"}, {}, TRUE),
        St(637, "expr", {"ax"}, {}, {"ax"}, {}, TRUE),
        St(643, "expr", {"ax"}, {}, {"ax"}, {}, TRUE),
        St(650, "expr", {"ax"}, {}, {"ax"}, {}, TRUE),
        St(657, "expr", {"ax"}, {}, {"ax"}, {}, TRUE),
        St(661, "expr", {"ax", "mpl"}, {}, {"ax"}, {}, TRUE),
        St(662, "expr", {"ax", "mpl"}, {}, {"ax"}, {}, TRUE),
        St(663, "expr", {"ax", "plt"}, {}, {"ax"}, {}, TRUE),
        St(664, "expr", {"ax", "mpl"}, {}, {"ax"}, {}, TRUE),
        St(666, "expr", {"ax"}, {}, {"ax"}, {}, TRUE) >> >>

\* unnamed/part_001: the code cells of the notebook, one tuple per cell, one St per top-level statement.
Errorbars ==
  << << St(38, "magic", {}, {}, {}, {}, FALSE),
        St(39, "import", {}, {"plt"}, {}, {}, TRUE),
        St(40, "expr", {"plt"}, {}, {}, {}, TRUE),
        St(41, "import", {}, {"np"}, {}, {}, TRUE) >>,
     << St(55, "assign", {"np"}, {"x"}, {}, {}, TRUE),
        St(56, "assign", {}, {"dy"}, {}, {}, FALSE),
        St(57, "assign", {"dy", "np", "x"}, {"y"}, {}, {}, TRUE),
        St(59, "expr", {"dy", "plt", "x", "y"}, {}, {}, {}, TRUE) >>,
     << St(84, "expr", {"dy", "plt", "x", "y"}, {}, {}, {}, TRUE) >>,
     << St(121, "import", {}, {"GaussianProcessRegressor"}, {}, {}, TRUE),
        St(124, "assign", {}, {"model"}, {}, {"np"}, TRUE),
        St(125, "assign", {"np"}, {"xdata"}, {}, {}, TRUE),
        St(126, "assign", {"model", "xdata"}, {"ydata"}, {}, {}, TRUE),
        St(129, "assign", {"GaussianProcessRegressor"}, {"gp"}, {}, {}, TRUE),
        St(131, "expr", {"gp", "np", "xdata", "ydata"}, {}, {"gp"}, {}, TRUE),
        St(133, "assign", {"np"}, {"xfit"}, {}, {}, TRUE),
        St(134, "assign", {"gp", "np", "xfit"}, {"MSE", "yfit"}, {}, {}, TRUE),
        St(135, "assign", {"MSE", "np"}, {"dyfit"}, {}, {}, TRUE) >>,
     << St(159, "expr", {"plt", "xdata", "ydata"}, {}, {}, {}, TRUE),
        St(160, "expr", {"plt", "xfit", "yfit"}, {}, {}, {}, TRUE),
        St(162, "expr", {"dyfit", "plt", "xfit", "yfit"}, {}, {}, {}, TRUE),
        St(164, "expr", {"plt"}, {}, {}, {}, TRUE) >> >>

NotebookNames ==
  { "Introduction", "ScatterPlots", "ContourPlots", "Histograms", "Legends",
    "Colorbars", "Subplots", "TextAnnotation", "Errorbars" }

\* The code cells of a notebook.
Cells(n) ==
  CASE n = "Introduction" -> Introduction
    [] n = "ScatterPlots" -> ScatterPlots
    [] n = "ContourPlots" -> ContourPlots
    [] n = "Histograms" -> Histograms
    [] n = "Legends" -> Legends
    [] n = "Colorbars" -> Colorbars
    [] n = "Subplots" -> Subplots
    [] n = "TextAnnotation" -> TextAnnotation
    [] n = "Errorbars" -> Errorbars

NoError == [line |-> 0, kind |-> "none"]

RECURSIVE FlatCells(_, _)
\* The source lines of cells c.. of notebook n in top-to-bottom order.
FlatCells(n, c) ==
  IF c > Len(Cells(n)) THEN << >>
  ELSE [k \in 1..Len(Cells(n)[c]) |-> Cells(n)[c][k].line] \o FlatCells(n, c + 1)

\* Program order of a notebook: every statement of every code cell, top to bottom.
ProgramOrder(n) == FlatCells(n, 1)

CurCell == Cells(notebook)[cellIx]
CurStmt == CurCell[stmtIx]

RECURSIVE CallClosure(_)
\* The names a statement needs bound when it runs: those it reads, and, for
\* every function it reads (calls), the free names of that function's body,
\* which Python looks up in the namespace at call time.
CallClosure(S) ==
  LET T == S \cup UNION { funcs[v] : v \in S \cap DOMAIN funcs }
  IN  IF T = S THEN S ELSE CallClosure(T)

Needs(s) == CallClosure(s.reads)

\* Mutant of BindNames: only assignment targets are bound, an import binds nothing.
BindNames_ImportsBindNothing(s) == IF s.kind = "import" THEN {} ELSE s.binds

\* The names a statement binds in the kernel namespace when it completes.
BindNames(s) == s.binds

\* Mutant of Handled: the call is wrapped in a try / except that swallows the error.
Handled_Swallowed(s) == s.kind \in {"assign", "expr", "import", "for"}

\* Whether the cell code catches an exception raised by statement s.  No cell
\* of the notebooks holds a try / except, a with block or a retry loop: the
\* only compound statements are for loops and function definitions.
Handled(s) == s.kind \in {"try", "with", "while"}

\* A magic (%matplotlib inline) or a shell escape (!ls, !conda) raises no
\* Python exception; a statement can raise in a library only if it calls one.
CanRaise(s) == s.ext /\ s.kind \notin {"magic", "shell"}

\* Mutant of NextPos: the kernel starts the next cell one statement early, before
\* the last statement of the current cell has run.
NextPos_Overlapping(n, c, k) ==
  IF k + 1 < Len(Cells(n)[c]) THEN << c, k + 1 >>
  ELSE IF c < Len(Cells(n)) THEN << c + 1, 1 >>
  ELSE IF k < Len(Cells(n)[c]) THEN << c, k + 1 >>
  ELSE << 0, 0 >>

\* The position after statement (c, k): the next statement of the cell, else
\* the first statement of the next cell; <<0, 0>> after the last cell.
NextPos(n, c, k) ==
  IF k < Len(Cells(n)[c]) THEN << c, k + 1 >>
  ELSE IF c < Len(Cells(n)) THEN << c + 1, 1 >>
  ELSE << 0, 0 >>

\* Mutant of Readers: any cell that mentions v counts, also one that binds v
\* itself before reading it.
Readers_AnyRead(n, v) ==
  { c \in 1..Len(Cells(n)) : \E k \in 1..Len(Cells(n)[c]) : v \in Cells(n)[c][k].reads }

\* The cells of notebook n that read name v before binding it themselves, that
\* is, the cells that use a value of v left by another cell.
Readers(n, v) ==
  { c \in 1..Len(Cells(n)) :
      \E k \in 1..Len(Cells(n)[c]) :
         /\ v \in Cells(n)[c][k].reads
         /\ \A j \in 1..(k - 1) : v \notin Cells(n)[c][j].binds }

\* The names statement s of cell c rebinds or modifies in place although an
\* earlier cell bound them and a cell other than c reads them.
SharedWrites(n, c, s) ==
  { v \in (s.binds \cup s.mut) \cap DOMAIN user_ns :
      user_ns[v] < c /\ Readers(n, v) \ {c} # {} }

Rebind(ns, names, c) ==
  [v \in DOMAIN ns \cup names |-> IF v \in names THEN c ELSE ns[v]]

Define(fs, s) ==
  [v \in DOMAIN fs \cup BindNames(s) |->
     IF v \in BindNames(s) THEN s.defers ELSE fs[v]]

InitKernel ==
  /\ notebook \in NotebookNames
  /\ cellIx = 1
  /\ stmtIx = 1
  /\ status = "run"
  /\ user_ns = << >>
  /\ funcs = << >>
  /\ executed = << >>
  /\ raised = NoError
  /\ sharedMut = {}
  \* no plotting session and no histogram call are part of this machine
  /\ prog = "" /\ pc = 0 /\ pyplot = << >> /\ refs = << >> /\ shown = << >>
  /\ data = << >> /\ counts = << >> /\ bin_edges = << >>
  /\ book = "" /\ step = 0 /\ canvas = << >> /\ bound = << >> /\ output = << >>
  /\ failure = ""

Advance ==
  LET p == NextPos(notebook, cellIx, stmtIx)
  IN  IF p = << 0, 0 >>
      THEN /\ status' = "done"
           /\ UNCHANGED << cellIx, stmtIx >>
      ELSE /\ status' = "run"
           /\ cellIx' = p[1]
           /\ stmtIx' = p[2]

\* The kernel runs the next statement.  A read of an unbound name raises
\* NameError; otherwise the statement completes and its bindings take effect.
RunStatement ==
  /\ status = "run"
  /\ LET s == CurStmt
     IN  IF Needs(s) \subseteq DOMAIN user_ns
         THEN /\ executed' = Append(executed, s.line)
              /\ user_ns' = Rebind(user_ns, BindNames(s), cellIx)
              /\ funcs' = Define(funcs, s)
              /\ sharedMut' = sharedMut \cup SharedWrites(notebook, cellIx, s)
              /\ UNCHANGED raised
              /\ Advance
         ELSE /\ executed' = Append(executed, s.line)
              /\ raised' = [line |-> s.line, kind |-> "NameError"]
              /\ status' = "error"
              /\ UNCHANGED << cellIx, stmtIx, user_ns, funcs, sharedMut >>
  /\ UNCHANGED << notebook, plotVars, histVars, layoutVars >>

\* The external library call of the next statement fails (a missing
\* data/births.csv, a missing package, a malformed argument).  Nothing in the
\* cell catches it: the exception leaves the cell, the statement binds nothing
\* and the run stops.
RaiseInLibrary ==
  /\ status = "run"
  /\ CanRaise(CurStmt)
  /\ Needs(CurStmt) \subseteq DOMAIN user_ns
  /\ executed' = Append(executed, CurStmt.line)
  /\ raised' = [line |-> CurStmt.line, kind |-> "LibraryError"]
  /\ IF Handled(CurStmt)
     THEN Advance
     ELSE /\ status' = "error"
          /\ UNCHANGED << cellIx, stmtIx >>
  /\ UNCHANGED << notebook, user_ns, funcs, sharedMut, plotVars, histVars, layoutVars >>

NextKernel == RunStatement \/ RaiseInLibrary

(***************************************************************************)
(* Properties of the kernel run.                                           *)
(***************************************************************************)
Range(q) == { q[i] : i \in DOMAIN q }

\* The names bound by the statements of notebook n that precede statement (c, k).
BoundBefore(n, c, k) ==
  UNION { UNION { Cells(n)[d][j].binds :
                    j \in { i \in 1..Len(Cells(n)[d]) : d < c \/ i < k } } :
          d \in 1..c }

\* C3: every name a statement reads (directly, or through the body of a
\* function it calls) is bound when the statement runs, by an earlier
\* statement of the same cell or of an earlier cell of the same notebook, in a
\* kernel that started empty: no run ever ends in a NameError.
C3_NamesBoundBeforeUse ==
  /\ raised.kind # "NameError"
  /\ status = "run" =>
       /\ Needs(CurStmt) \subseteq DOMAIN user_ns
       /\ Needs(CurStmt) \subseteq BoundBefore(notebook, cellIx, stmtIx)
       /\ \A v \in Needs(CurStmt) : user_ns[v] <= cellIx

\* C3 witness: view_colormap('jet') has run in the Colorbars notebook; the call
\* needs grayscale_cmap, plt, np and LinearSegmentedColormap, all bound by
\* earlier cells.
C3_Witness ==
  /\ notebook = "Colorbars"
  /\ 187 \in Range(executed)
  /\ raised = NoError
  /\ { "grayscale_cmap", "LinearSegmentedColormap", "np", "plt" }
        \subseteq CallClosure({"view_colormap"})

\* The names each notebook rebinds or modifies in place across cells.
SharedMutableNames(n) ==
  CASE n = "Introduction" -> { "fig" }
    [] n = "ScatterPlots" -> { "x", "y" }
    [] n = "ContourPlots" -> { }
    [] n = "Histograms" -> { "data" }
    [] n = "Legends" -> { "ax", "fig", "x" }
    [] n = "Colorbars" -> { "I" }
    [] n = "Subplots" -> { "ax", "fig", "grid" }
    [] n = "TextAnnotation" -> { "ax", "fig" }
    [] n = "Errorbars" -> { }

EmptyPyplot == [figs |-> << >>, axs |-> << >>, arts |-> << >>, managed |-> << >>]

NoRefs == [fig |-> 0, ax |-> << >>, lines |-> << >>, leg |-> 0]

\* The label of an artist drawn without label=: "_child0", "_child1", ...,
\* names that start with an underscore.
AutoLabel == "_child"

\* label=None
NoneLabel == ""

\* Mutant of InLegend: every artist is listed, labelled or not.
InLegend_All(label) == TRUE

\* Whether an automatic legend lists an artist with this label: the label is
\* set and does not start with an underscore.
InLegend(label) == label \notin { AutoLabel, NoneLabel }

figure(w) ==
  [w EXCEPT !.figs = Append(@, [axes |-> << >>, cur |-> 0]),
            !.managed = Append(@, Len(w.figs) + 1)]

\* plt.gcf(): the current figure, created when pyplot manages none.
gcf(w) == IF w.managed = << >> THEN figure(w) ELSE w

CurFig(w) == w.managed[Len(w.managed)]

\* Mutant of add_subplot: the new axes does not become the figure's current axes
\* once the figure has one.
add_subplot_KeepsCurrent(w, f, kind, grid) ==
  LET a == Len(w.axs) + 1
  IN  [w EXCEPT !.axs = Append(@, [fig |-> f, kind |-> kind, grid |-> grid,
                                   children |-> << >>, legend_ |-> 0, props |-> {}]),
                !.figs[f].axes = Append(@, a),
                !.figs[f].cur = IF @ = 0 THEN a ELSE @]

\* fig.add_subplot / fig.add_axes: a new axes in figure f, which becomes the
\* figure's current axes.
add_subplot(w, f, kind, grid) ==
  LET a == Len(w.axs) + 1
  IN  [w EXCEPT !.axs = Append(@, [fig |-> f, kind |-> kind, grid |-> grid,
                                   children |-> << >>, legend_ |-> 0, props |-> {}]),
                !.figs[f].axes = Append(@, a),
                !.figs[f].cur = a]

\* plt.gca(): the current axes of the current figure, created (a 1x1 subplot)
\* when the figure has none.
gca(w) ==
  LET v == gcf(w)
  IN  IF v.figs[CurFig(v)].cur = 0
      THEN add_subplot(v, CurFig(v), "axes", << 1, 1, 1 >>)
      ELSE v

CurAx(w) == w.figs[CurFig(w)].cur

\* plt.subplot(rows, cols, index): the axes of the current figure at that grid
\* position, created if the figure has none there; it becomes current.
subplot(w, rows, cols, index) ==
  LET v == gcf(w)
      f == CurFig(v)
      there == { i \in DOMAIN v.figs[f].axes :
                   v.axs[v.figs[f].axes[i]].grid = << rows, cols, index >>
                   /\ v.axs[v.figs[f].axes[i]].kind = "axes" }
  IN  IF there = {}
      THEN add_subplot(v, f, "axes", << rows, cols, index >>)
      ELSE [v EXCEPT !.figs[f].cur = v.figs[f].axes[CHOOSE i \in there : TRUE]]

RECURSIVE AddGrid(_, _, _, _, _)
\* The axes index..rows*cols of a rows x cols grid added to figure f, row by row.
AddGrid(w, f, rows, cols, index) ==
  IF index > rows * cols THEN w
  ELSE AddGrid(add_subplot(w, f, "axes", << rows, cols, index >>), f, rows, cols, index + 1)

\* plt.subplots(rows, cols): a new figure holding the whole grid.
subplots(w, rows, cols) ==
  LET v == figure(w)
  IN  AddGrid(v, CurFig(v), rows, cols, 1)

\* Mutant of plot: the artists go to the current axes of the current figure,
\* whatever axes the method was called on.
plot_Current(w, a, kind, datas, labels) ==
  LET v == gca(w)
      c == CurAx(v)
      n == Len(v.arts)
      new == [i \in 1..Len(datas) |->
                [kind |-> kind, data |-> datas[i], label |-> labels[i],
                 axes |-> c, handles |-> << >>, labels |-> << >>, opts |-> ""]]
  IN  [v EXCEPT !.arts = @ \o new,
                !.axs[c].children = @ \o [i \in 1..Len(datas) |-> n + i]]

\* ax.plot / ax.scatter / ax.imshow / ...: one artist per data set, appended
\* to the children of axes a.
plot(w, a, kind, datas, labels) ==
  LET n == Len(w.arts)
      new == [i \in 1..Len(datas) |->
                [kind |-> kind, data |-> datas[i], label |-> labels[i],
                 axes |-> a, handles |-> << >>, labels |-> << >>, opts |-> ""]]
  IN  [w EXCEPT !.arts = @ \o new,
                !.axs[a].children = @ \o [i \in 1..Len(datas) |-> n + i]]

\* The handles of an automatic legend of axes a: its labelled artists, in
\* drawing order.
LegendHandles(w, a) ==
  LET Listed(h) == w.arts[h].kind # "legend" /\ InLegend(w.arts[h].label)
  IN  SelectSeq(w.axs[a].children, Listed)

\* A new Legend artist for axes a; it is not yet part of the axes.
Legend(w, a, handles, labels, opts) ==
  [w EXCEPT !.arts = Append(@, [kind |-> "legend", data |-> "", label |-> AutoLabel,
                                axes |-> a, handles |-> handles, labels |-> labels,
                                opts |-> opts])]

\* Mutant of legend: the new legend is added next to the previous one
\* instead of taking its place.
legend_Adds(w, a, handles, labels, opts) ==
  LET v == Legend(w, a, handles, labels, opts)
  IN  IF w.axs[a].legend_ = 0
      THEN [v EXCEPT !.axs[a].legend_ = Len(v.arts)]
      ELSE [v EXCEPT !.axs[a].children = Append(@, Len(v.arts))]

\* ax.legend(...): creates a Legend artist and saves it in the legend_
\* attribute of the axes, in place of the legend saved there before.
legend(w, a, handles, labels, opts) ==
  LET v == Legend(w, a, handles, labels, opts)
  IN  [v EXCEPT !.axs[a].legend_ = Len(v.arts)]

\* Mutant of add_artist: the artist is installed through the standard legend
\* interface, in the legend_ attribute.
add_artist_AsLegend(w, a, artist) == [w EXCEPT !.axs[a].legend_ = artist]

\* ax.add_artist(artist): the artist joins the children of the axes.
add_artist(w, a, artist) == [w EXCEPT !.axs[a].children = Append(@, artist)]

\* fig.colorbar(mappable, ax=gca()): a colorbar axes is added to the figure of
\* axes a; the axes that was current stays current.
colorbar(w, a) ==
  LET f == w.axs[a].fig
      v == add_subplot(w, f, "colorbar", << 0, 0, 0 >>)
  IN  [v EXCEPT !.figs[f].cur = w.figs[f].cur]

set_prop(w, a, prop) == [w EXCEPT !.axs[a].props = @ \cup { prop }]

\* The legends drawn with axes a: the one in legend_, then every legend among
\* its children.
ShownLegends(w, a) ==
  LET IsLegend(h) == w.arts[h].kind = "legend"
  IN  (IF w.axs[a].legend_ = 0 THEN << >> ELSE << w.axs[a].legend_ >>)
        \o SelectSeq(w.axs[a].children, IsLegend)

\* What is drawn of axes a / of figure f: the picture, without object identities.
AxesPicture(w, a) ==
  LET NotLegend(h) == w.arts[h].kind # "legend"
      drawn == SelectSeq(w.axs[a].children, NotLegend)
      legs == ShownLegends(w, a)
  IN  [kind |-> w.axs[a].kind,
       grid |-> w.axs[a].grid,
       artists |-> [i \in DOMAIN drawn |->
                      [kind |-> w.arts[drawn[i]].kind, data |-> w.arts[drawn[i]].data]],
       legends |-> [i \in DOMAIN legs |->
                      [labels |-> w.arts[legs[i]].labels,
                       handles |-> [j \in DOMAIN w.arts[legs[i]].handles |->
                                      w.arts[w.arts[legs[i]].handles[j]].data],
                       opts |-> w.arts[legs[i]].opts]]]

FigurePicture(w, f) ==
  [i \in DOMAIN w.figs[f].axes |-> AxesPicture(w, w.figs[f].axes[i])]

(***************************************************************************)
(* The plotting cells of the notebooks, as the sequence of the operations  *)
(* that create or change figures, axes, artists and legends (a loop is     *)
(* unrolled, its iterations share the line of the call).  An operation:    *)
(*   line   - source line of the call                                      *)
(*   op     - what is called                                               *)
(*   tgt    - 0: a pyplot function (plt.plot, plt.legend, ...), acting on  *)
(*            the current axes; k > 0: a method of the axes ax[k]          *)
(*   kind, datas, labels - for a drawing call: the kind of artist and, per *)
(*            artist drawn, its data and its label                         *)
(*   opts   - keyword options of a legend; the property set by a setter    *)
(*   grid   - << rows, cols, index >> of subplot / subplots                *)
(*   from, to - legend handles lines[from..to] (1-based, to = 0: through   *)
(*            the end); from = 0: no handles given                         *)
(*   bind   - the notebook variable the result is assigned to, if any      *)
(***************************************************************************)
Op(line, op, tgt, kind, datas, labels, opts, grid, from, to, bind) ==
  [line |-> line, op |-> op, tgt |-> tgt, kind |-> kind, datas |-> datas,
   labels |-> labels, opts |-> opts, grid |-> grid, from |-> from, to |-> to,
   bind |-> bind]

plt_figure(line, bind) ==
  Op(line, "plt.figure", 0, "", << >>, << >>, "", << 0, 0, 0 >>, 0, 0, bind)
plt_subplot(line, rows, cols, index) ==
  Op(line, "plt.subplot", 0, "", << >>, << >>, "", << rows, cols, index >>, 0, 0, "")
plt_subplots(line, rows, cols) ==
  Op(line, "plt.subplots", 0, "", << >>, << >>, "", << rows, cols, 0 >>, 0, 0, "fig, ax")
plt_plot(line, kind, datas, labels, bind) ==
  Op(line, "plt.plot", 0, kind, datas, labels, "", << 0, 0, 0 >>, 0, 0, bind)
ax_plot(line, k, kind, datas, labels, bind) ==
  Op(line, "ax.plot", k, kind, datas, labels, "", << 0, 0, 0 >>, 0, 0, bind)
plt_set(line, prop) ==
  Op(line, "plt.set", 0, "", << >>, << >>, prop, << 0, 0, 0 >>, 0, 0, "")
ax_set(line, k, prop) ==
  Op(line, "ax.set", k, "", << >>, << >>, prop, << 0, 0, 0 >>, 0, 0, "")
plt_colorbar(line) ==
  Op(line, "plt.colorbar", 0, "", << >>, << >>, "", << 0, 0, 0 >>, 0, 0, "")
plt_legend(line, from, to, labels, opts) ==
  Op(line, "plt.legend", 0, "", << >>, labels, opts, << 0, 0, 0 >>, from, to, "")
ax_legend(line, k, from, to, labels, opts, bind) ==
  Op(line, "ax.legend", k, "", << >>, labels, opts, << 0, 0, 0 >>, from, to, bind)
new_Legend(line, k, from, to, labels, opts) ==
  Op(line, "Legend", k, "", << >>, labels, opts, << 0, 0, 0 >>, from, to, "leg")
ax_add_artist(line, k) ==
  Op(line, "ax.add_artist", k, "", << >>, << >>, "", << 0, 0, 0 >>, 0, 0, "")
assign_lines(line) ==
  Op(line, "lines = []", 0, "", << >>, << >>, "", << 0, 0, 0 >>, 0, 0, "lines")
display_fig(line) ==
  Op(line, "fig", 0, "", << >>, << >>, "", << 0, 0, 0 >>, 0, 0, "")
\* The end of the code cell that starts on this line: with %matplotlib inline
\* the kernel then displays and closes every figure pyplot manages.
end_cell(line) ==
  Op(line, "end of cell", 0, "", << >>, << >>, "", << 0, 0, 0 >>, 0, 0, "")

Auto(n) == [i \in 1..n |-> AutoLabel]

IntroductionPlots ==
  << plt_figure(218, "fig"),
     plt_plot(219, "line", << "sin(x)" >>, Auto(1), ""),
     plt_plot(220, "line", << "cos(x)" >>, Auto(1), ""),
     end_cell(215),
     plt_figure(352, ""),
     plt_subplot(355, 2, 1, 1),
     plt_plot(356, "line", << "sin(x)" >>, Auto(1), ""),
     plt_subplot(359, 2, 1, 2),
     plt_plot(360, "line", << "cos(x)" >>, Auto(1), ""),
     end_cell(352),
     plt_subplots(400, 2, 1),
     ax_plot(403, 1, "line", << "sin(x)" >>, Auto(1), ""),
     ax_plot(404, 2, "line", << "cos(x)" >>, Auto(1), ""),
     end_cell(398) >>

Markers == << "marker='o'", "marker='.'", "marker=','", "marker='x'", "marker='+'",
             "marker='v'", "marker='^'", "marker='<'", "marker='>'", "marker='s'",
             "marker='d'" >>

ScatterPlotsPlots ==
  << plt_plot(55, "line", << "x, y" >>, Auto(1), ""),
     end_cell(52) >>
  \o [i \in DOMAIN Markers |->
        plt_plot(78, "line", << "rng.rand(5), rng.rand(5)" >>, << Markers[i] >>, "")]
  \o
  << plt_legend(80, 0, 0, << >>, "numpoints=1"),
     plt_set(81, "xlim"),
     end_cell(76),
     plt_plot(102, "line", << "x, y" >>, Auto(1), ""),
     end_cell(102),
     plt_plot(123, "line", << "x, y" >>, Auto(1), ""),
     plt_set(128, "ylim"),
     end_cell(123),
     plt_plot(159, "scatter", << "x, y" >>, Auto(1), ""),
     end_cell(159),
     plt_plot(189, "scatter", << "x, y" >>, Auto(1), ""),
     plt_colorbar(191),
     end_cell(183),
     plt_plot(233, "scatter", << "features[0], features[1]" >>, Auto(1), ""),
     plt_set(235, "xlabel"),
     plt_set(236, "ylabel"),
     end_cell(229) >>

ContourPlotsPlots ==
  << plt_plot(106, "contour", << "X, Y, Z" >>, Auto(1), ""),
     end_cell(106),
     plt_plot(129, "contour", << "X, Y, Z" >>, Auto(1), ""),
     end_cell(129),
     plt_plot(159, "contourf", << "X, Y, Z" >>, Auto(1), ""),
     plt_colorbar(160),
     end_cell(159),
     plt_plot(187, "image", << "Z" >>, Auto(1), ""),
     plt_colorbar(189),
     plt_set(190, "axis"),
     plt_set(191, "axis"),
     end_cell(187),
     plt_plot(224, "contour", << "X, Y, Z" >>, Auto(1), ""),
     plt_plot(225, "clabel", << "contours" >>, Auto(1), ""),
     plt_plot(227, "image", << "Z" >>, Auto(1), ""),
     plt_colorbar(229),
     end_cell(224) >>

Areas == << "100 km$^2$", "300 km$^2$", "500 km$^2$" >>

LegendsPlots ==
  << plt_subplots(52, 1, 1),
     ax_plot(53, 1, "line", << "sin(x)" >>, << "Sine" >>, ""),
     ax_plot(54, 1, "line", << "cos(x)" >>, << "Cosine" >>, ""),
     ax_set(55, 1, "axis"),
     ax_legend(56, 1, 0, 0, << >>, "", "leg"),
     end_cell(51),
     ax_legend(78, 1, 0, 0, << >>, "loc='upper left', frameon=False", ""),
     display_fig(79),
     end_cell(78),
     ax_legend(100, 1, 0, 0, << >>, "frameon=False, loc='lower center', ncol=2", ""),
     display_fig(101),
     end_cell(100),
     ax_legend(122, 1, 0, 0, << >>,
               "fancybox=True, framealpha=1, shadow=True, borderpad=1", ""),
     display_fig(123),
     end_cell(122),
     plt_plot(157, "line", << "y[:, 0]", "y[:, 1]", "y[:, 2]", "y[:, 3]" >>, Auto(4), "lines"),
     plt_legend(160, 1, 2, << "first", "second" >>, ""),
     end_cell(156),
     plt_plot(181, "line", << "y[:, 0]" >>, << "first" >>, ""),
     plt_plot(182, "line", << "y[:, 1]" >>, << "second" >>, ""),
     plt_plot(183, "line", << "y[:, 2]", "y[:, 3]" >>, Auto(2), ""),
     plt_legend(184, 0, 0, << >>, "framealpha=1, frameon=True"),
     end_cell(181),
     plt_plot(225, "scatter", << "lon, lat" >>, << NoneLabel >>, ""),
     plt_set(228, "axis"),
     plt_set(229, "xlabel"),
     plt_set(230, "ylabel"),
     plt_colorbar(231),
     plt_set(232, "clim") >>
  \o [i \in DOMAIN Areas |-> plt_plot(237, "scatter", << "[], []" >>, << Areas[i] >>, "")]
  \o
  << plt_legend(239, 0, 0, << >>,
                "scatterpoints=1, frameon=False, labelspacing=1, title='City Area'"),
     plt_set(241, "title"),
     end_cell(217),
     plt_subplots(282, 1, 1),
     assign_lines(284),
     ax_plot(289, 1, "line", << "sin(x - 0 * pi / 2)" >>, Auto(1), "lines +="),
     ax_plot(289, 1, "line", << "sin(x - 1 * pi / 2)" >>, Auto(1), "lines +="),
     ax_plot(289, 1, "line", << "sin(x - 2 * pi / 2)" >>, Auto(1), "lines +="),
     ax_plot(289, 1, "line", << "sin(x - 3 * pi / 2)" >>, Auto(1), "lines +="),
     ax_set(291, 1, "axis"),
     ax_legend(294, 1, 1, 2, << "line A", "line B" >>, "loc='upper right', frameon=False", ""),
     new_Legend(299, 1, 3, 0, << "line C", "line D" >>, "loc='lower right', frameon=False"),
     ax_add_artist(301, 1),
     end_cell(282) >>

ErrorbarsPlots ==
  << plt_plot(59, "errorbar", << "x, y, yerr=dy" >>, Auto(1), ""),
     end_cell(55),
     plt_plot(84, "errorbar", << "x, y, yerr=dy" >>, Auto(1), ""),
     end_cell(84),
     plt_plot(159, "line", << "xdata, ydata" >>, Auto(1), ""),
     plt_plot(160, "line", << "xfit, yfit" >>, Auto(1), ""),
     plt_plot(162, "fill_between", << "xfit, yfit - dyfit, yfit + dyfit" >>, Auto(1), ""),
     plt_set(164, "xlim"),
     end_cell(158) >>

PlotNames == { "Introduction", "ScatterPlots", "ContourPlots", "Legends", "Errorbars" }

Plots(n) ==
  CASE n = "Introduction" -> IntroductionPlots
    [] n = "ScatterPlots" -> ScatterPlotsPlots
    [] n = "ContourPlots" -> ContourPlotsPlots
    [] n = "Legends"      -> LegendsPlots
    [] n = "Errorbars"    -> ErrorbarsPlots
    [] OTHER              -> << >>

(***************************************************************************)
(* The plotting session as a state machine: one action per operation.      *)
(***************************************************************************)
Cur == Plots(prog)[pc]

At(name) == pc \in DOMAIN Plots(prog) /\ Cur.op = name

\* lines[from:to] of the notebook's list of lines
Slice(q, from, to) ==
  SubSeq(q, from, IF to = 0 \/ to > Len(q) THEN Len(q) ELSE to)

InitPyplot ==
  /\ prog \in PlotNames
  /\ pc = 1
  /\ pyplot = EmptyPyplot
  /\ refs = NoRefs
  /\ shown = << >>
  \* no kernel bookkeeping and no histogram call are part of this machine
  /\ notebook = "" /\ cellIx = 0 /\ stmtIx = 0 /\ status = "" /\ user_ns = << >>
  /\ funcs = << >> /\ executed = << >> /\ raised = NoError /\ sharedMut = {}
  /\ data = << >> /\ counts = << >> /\ bin_edges = << >>
  /\ book = "" /\ step = 0 /\ canvas = << >> /\ bound = << >> /\ output = << >>
  /\ failure = ""

\* plt.figure(); fig = plt.figure()
PltFigure ==
  /\ At("plt.figure")
  /\ pyplot' = figure(pyplot)
  /\ refs' = IF Cur.bind = "fig" THEN [refs EXCEPT !.fig = CurFig(pyplot')] ELSE refs
  /\ pc' = pc + 1
  /\ UNCHANGED << prog, shown, kernelVars, histVars, layoutVars >>

\* plt.subplot(rows, cols, index)
PltSubplot ==
  /\ At("plt.subplot")
  /\ pyplot' = subplot(pyplot, Cur.grid[1], Cur.grid[2], Cur.grid[3])
  /\ pc' = pc + 1
  /\ UNCHANGED << prog, refs, shown, kernelVars, histVars, layoutVars >>

\* fig, ax = plt.subplots(rows, cols)
PltSubplots ==
  /\ At("plt.subplots")
  /\ pyplot' = subplots(pyplot, Cur.grid[1], Cur.grid[2])
  /\ refs' = [refs EXCEPT !.fig = CurFig(pyplot'),
                          !.ax = pyplot'.figs[CurFig(pyplot')].axes]
  /\ pc' = pc + 1
  /\ UNCHANGED << prog, shown, kernelVars, histVars, layoutVars >>

\* The artists the last drawing call added to w.
Drawn(w, n) == [i \in 1..n |-> Len(w.arts) - n + i]

\* plt.plot(...), plt.scatter(...), plt.contour(...), ...: gca().plot(...)
PltPlot ==
  /\ At("plt.plot")
  /\ LET v == gca(pyplot)
     IN  pyplot' = plot(v, CurAx(v), Cur.kind, Cur.datas, Cur.labels)
  /\ refs' = IF Cur.bind = "lines"
             THEN [refs EXCEPT !.lines = Drawn(pyplot', Len(Cur.datas))]
             ELSE refs
  /\ pc' = pc + 1
  /\ UNCHANGED << prog, shown, kernelVars, histVars, layoutVars >>

\* ax.plot(...), ax[k].plot(...); lines += ax.plot(...)
AxPlot ==
  /\ At("ax.plot")
  /\ pyplot' = plot(pyplot, refs.ax[Cur.tgt], Cur.kind, Cur.datas, Cur.labels)
  /\ refs' = IF Cur.bind = "lines +="
             THEN [refs EXCEPT !.lines = @ \o Drawn(pyplot', Len(Cur.datas))]
             ELSE refs
  /\ pc' = pc + 1
  /\ UNCHANGED << prog, shown, kernelVars, histVars, layoutVars >>

\* plt.xlim(...), plt.axis(...), plt.xlabel(...), plt.title(...), ...
PltSet ==
  /\ At("plt.set")
  /\ LET v == gca(pyplot)
     IN  pyplot' = set_prop(v, CurAx(v), Cur.opts)
  /\ pc' = pc + 1
  /\ UNCHANGED << prog, refs, shown, kernelVars, histVars, layoutVars >>

\* ax.axis(...)
AxSet ==
  /\ At("ax.set")
  /\ pyplot' = set_prop(pyplot, refs.ax[Cur.tgt], Cur.opts)
  /\ pc' = pc + 1
  /\ UNCHANGED << prog, refs, shown, kernelVars, histVars, layoutVars >>

\* plt.colorbar()
PltColorbar ==
  /\ At("plt.colorbar")
  /\ LET v == gca(pyplot)
     IN  pyplot' = colorbar(v, CurAx(v))
  /\ pc' = pc + 1
  /\ UNCHANGED << prog, refs, shown, kernelVars, histVars, layoutVars >>

\* The handles and labels of a legend call on axes a of w: those given, or
\* the labelled artists of the axes with their labels.
HandlesOf(w, a, op) ==
  IF op.from = 0 THEN LegendHandles(w, a) ELSE Slice(refs.lines, op.from, op.to)

LabelsOf(w, a, op) ==
  IF op.from = 0
  THEN [i \in DOMAIN LegendHandles(w, a) |-> w.arts[LegendHandles(w, a)[i]].label]
  ELSE op.labels

\* plt.legend(...): gca().legend(...)
PltLegend ==
  /\ At("plt.legend")
  /\ LET v == gca(pyplot)
         a == CurAx(v)
     IN  pyplot' = legend(v, a, HandlesOf(v, a, Cur), LabelsOf(v, a, Cur), Cur.opts)
  /\ pc' = pc + 1
  /\ UNCHANGED << prog, refs, shown, kernelVars, histVars, layoutVars >>

\* ax.legend(...); leg = ax.legend()
AxLegend ==
  /\ At("ax.legend")
  /\ LET a == refs.ax[Cur.tgt]
     IN  pyplot' = legend(pyplot, a, HandlesOf(pyplot, a, Cur),
                          LabelsOf(pyplot, a, Cur), Cur.opts)
  /\ refs' = IF Cur.bind = "leg" THEN [refs EXCEPT !.leg = Len(pyplot'.arts)] ELSE refs
  /\ pc' = pc + 1
  /\ UNCHANGED << prog, shown, kernelVars, histVars, layoutVars >>

\* leg = Legend(ax, lines[from:], labels, ...)
NewLegend ==
  /\ At("Legend")
  /\ LET a == refs.ax[Cur.tgt]
     IN  pyplot' = Legend(pyplot, a, HandlesOf(pyplot, a, Cur),
                          LabelsOf(pyplot, a, Cur), Cur.opts)
  /\ refs' = [refs EXCEPT !.leg = Len(pyplot'.arts)]
  /\ pc' = pc + 1
  /\ UNCHANGED << prog, shown, kernelVars, histVars, layoutVars >>

\* ax.add_artist(leg)
AxAddArtist ==
  /\ At("ax.add_artist")
  /\ pyplot' = add_artist(pyplot, refs.ax[Cur.tgt], refs.leg)
  /\ pc' = pc + 1
  /\ UNCHANGED << prog, refs, shown, kernelVars, histVars, layoutVars >>

\* lines = []
AssignLines ==
  /\ At("lines = []")
  /\ refs' = [refs EXCEPT !.lines = << >>]
  /\ pc' = pc + 1
  /\ UNCHANGED << prog, pyplot, shown, kernelVars, histVars, layoutVars >>

\* fig, as the last expression of a cell: the figure is displayed
DisplayFig ==
  /\ At("fig")
  /\ shown' = Append(shown, [at |-> Cur.line,
                             pictures |-> << FigurePicture(pyplot, refs.fig) >>])
  /\ pc' = pc + 1
  /\ UNCHANGED << prog, pyplot, refs, kernelVars, histVars, layoutVars >>

\* The cell ends: the inline backend displays every figure pyplot manages and
\* closes it.  The objects live on as long as the notebook refers to them.
EndCell ==
  /\ At("end of cell")
  /\ shown' = IF pyplot.managed = << >> THEN shown
              ELSE Append(shown, [at |-> Cur.line,
                                  pictures |-> [i \in DOMAIN pyplot.managed |->
                                      FigurePicture(pyplot, pyplot.managed[i])]])
  /\ pyplot' = [pyplot EXCEPT !.managed = << >>]
  /\ pc' = pc + 1
  /\ UNCHANGED << prog, refs, kernelVars, histVars, layoutVars >>

NextPyplot ==
  \/ PltFigure \/ PltSubplot \/ PltSubplots \/ PltPlot \/ AxPlot \/ PltSet \/ AxSet
  \/ PltColorbar \/ PltLegend \/ AxLegend \/ NewLegend \/ AxAddArtist \/ AssignLines
  \/ DisplayFig \/ EndCell

SpecPyplot == InitPyplot /\ [][NextPyplot]_vars

(***************************************************************************)
(* Properties of the plotting session.                                     *)
(***************************************************************************)
\* Every call of the program written on this line has run.
Ran(line) ==
  LET calls == { i \in DOMAIN Plots(prog) :
                   Plots(prog)[i].line = line /\ Plots(prog)[i].op # "end of cell" }
  IN  calls # {} /\ \A i \in calls : i < pc

\* The pictures displayed by the operation at this line.
ShownAt(line) == { shown[i].pictures : i \in { j \in DOMAIN shown : shown[j].at = line } }

Panel(grid, datas) ==
  [kind |-> "axes", grid |-> grid,
   artists |-> [i \in DOMAIN datas |-> [kind |-> "line", data |-> datas[i]]],
   legends |-> << >>]

TwoPanels ==
  << << Panel(<< 2, 1, 1 >>, << "sin(x)" >>), Panel(<< 2, 1, 2 >>, << "cos(x)" >>) >> >>

\* The panels of the MATLAB-style cell of the Introduction notebook, while the
\* cell runs: the sine goes to panel 1 only, the cosine to panel 2 only.
C1_Panels ==
  prog = "Introduction" =>
    /\ (Ran(356) /\ ~Ran(359) =>
          /\ CurAx(pyplot) = pyplot.figs[CurFig(pyplot)].axes[1]
          /\ FigurePicture(pyplot, CurFig(pyplot)) = << Panel(<< 2, 1, 1 >>, << "sin(x)" >>) >>)
    /\ (Ran(359) /\ ~Ran(360) =>
          /\ CurAx(pyplot) = pyplot.figs[CurFig(pyplot)].axes[2]
          /\ FigurePicture(pyplot, CurFig(pyplot))
               = << Panel(<< 2, 1, 1 >>, << "sin(x)" >>), Panel(<< 2, 1, 2 >>, << >>) >>)
    /\ (Ran(360) => ShownAt(352) # {} \/ pyplot.managed # << >>)
    /\ (Ran(360) /\ ShownAt(352) = {} =>
          << FigurePicture(pyplot, CurFig(pyplot)) >> = TwoPanels)
    /\ ShownAt(352) \subseteq { TwoPanels }

\* A step of a pyplot drawing function: there is a current figure with a
\* current axes afterwards, it is the one that was current before if there was
\* one, the new artists are children of that axes, and every other axes keeps
\* its children.
C1_Step ==
  At("plt.plot") =>
    /\ pyplot'.managed # << >>
    /\ CurAx(pyplot') # 0
    /\ (pyplot.managed # << >> =>
          /\ CurFig(pyplot') = CurFig(pyplot)
          /\ CurAx(pyplot) # 0 => CurAx(pyplot') = CurAx(pyplot))
    /\ \A h \in (Len(pyplot.arts) + 1)..Len(pyplot'.arts) :
          /\ pyplot'.arts[h].axes = CurAx(pyplot')
          /\ \E i \in DOMAIN pyplot'.axs[CurAx(pyplot')].children :
                pyplot'.axs[CurAx(pyplot')].children[i] = h
    /\ Len(pyplot'.arts) = Len(pyplot.arts) + Len(Cur.datas)
    /\ \A a \in DOMAIN pyplot.axs :
          a # CurAx(pyplot') => pyplot'.axs[a].children = pyplot.axs[a].children

\* C1: the pyplot interface is stateful: every plt drawing call is applied to
\* the current figure and the current axes, and in the cell plt.figure();
\* plt.subplot(2, 1, 1); plt.plot(sin); plt.subplot(2, 1, 2); plt.plot(cos)
\* the sine lands in panel 1 only and the cosine in panel 2 only.
C1_StatefulInterface == [] C1_Panels /\ [][C1_Step]_vars

\* C1 witness: the MATLAB-style cell has displayed its two panels.
C1_Witness == prog = "Introduction" /\ ShownAt(352) = { TwoPanels }

\* C2: fig, ax = plt.subplots(2); ax[0].plot(sin); ax[1].plot(cos) displays the
\* same picture as the MATLAB-style cell, and each ax[k].plot lands in ax[k]
\* whichever axes is current.
C2_ObjectOrientedSamePlot ==
  prog = "Introduction" =>
    /\ \A p \in ShownAt(352), q \in ShownAt(398) : p = q
    /\ (Ran(403) =>
          AxesPicture(pyplot, refs.ax[1]) = Panel(<< 2, 1, 1 >>, << "sin(x)" >>))
    /\ (Ran(400) /\ ~Ran(404) => AxesPicture(pyplot, refs.ax[2]) = Panel(<< 2, 1, 2 >>, << >>))
    /\ (Ran(404) =>
          AxesPicture(pyplot, refs.ax[2]) = Panel(<< 2, 1, 2 >>, << "cos(x)" >>))
    /\ (Ran(404) /\ pc > Len(Plots(prog)) => ShownAt(398) # {})

\* C2 witness: ax[0].plot has drawn the sine while ax[1] was the current axes,
\* and the MATLAB-style cell has displayed its picture.
C2_Witness ==
  /\ prog = "Introduction"
  /\ Ran(403) /\ ~Ran(404)
  /\ CurAx(pyplot) = refs.ax[2]
  /\ pyplot.axs[refs.ax[1]].children # << >>
  /\ ShownAt(352) # {}

\* The legend calls on the first axes of the Legends notebook that have run.
LegendCalls ==
  { i \in DOMAIN Plots(prog) : i < pc /\ Plots(prog)[i].op = "ax.legend" /\ ~Ran(282) }

SineCosineLegend(opts) ==
  << [labels |-> << "Sine", "Cosine" >>, handles |-> << "sin(x)", "cos(x)" >>,
      opts |-> opts] >>

\* C8: with the standard legend interface an axes shows at most one legend;
\* after each of the successive ax.legend calls of the Legends notebook the
\* figure shows exactly one legend, with the options of the last call and the
\* entries Sine and Cosine.
C8_OneLegend ==
  /\ ~(prog = "Legends" /\ Ran(301)) =>
        \A a \in DOMAIN pyplot.axs : Len(ShownLegends(pyplot, a)) <= 1
  /\ prog = "Legends" /\ LegendCalls # {} =>
        LET last == CHOOSE i \in LegendCalls : \A j \in LegendCalls : j <= i
        IN  /\ AxesPicture(pyplot, refs.ax[1]).legends
                 = SineCosineLegend(Plots(prog)[last].opts)
            /\ FigurePicture(pyplot, refs.fig)[1].legends
                 = SineCosineLegend(Plots(prog)[last].opts)
  /\ prog = "Legends" =>
        \A l \in { 79, 101, 123 } : \A p \in ShownAt(l) :
            p[1][1].legends = SineCosineLegend(Plots(prog)[CHOOSE i \in DOMAIN Plots(prog) :
                                                  Plots(prog)[i].op = "ax.legend"
                                                  /\ Plots(prog)[i].line = l - 1].opts)

\* C8 witness: the fourth ax.legend call has run and the figure was displayed.
C8_Witness ==
  /\ prog = "Legends"
  /\ Cardinality(LegendCalls) = 4
  /\ ShownAt(123) # {}
  /\ pyplot.arts[pyplot.axs[refs.ax[1]].legend_].opts
       = "fancybox=True, framealpha=1, shadow=True, borderpad=1"

Lines(datas) == [i \in DOMAIN datas |-> [kind |-> "line", data |-> datas[i]]]

\* C9: a legend created without handles lists exactly the labelled artists of
\* its axes: after plot(label='first'), plot(label='second'), plot(y[:, 2:]),
\* legend() the entries are first and second, in that order, and the two
\* unlabelled lines are drawn but not listed; the legend of the cities plot
\* lists the three labelled empty scatters and not the scatter with label=None.
C9_LabelledOnly ==
  prog = "Legends" =>
    /\ \A p \in ShownAt(181) :
          /\ Len(p) = 1 /\ Len(p[1]) = 1
          /\ p[1][1].artists = Lines(<< "y[:, 0]", "y[:, 1]", "y[:, 2]", "y[:, 3]" >>)
          /\ p[1][1].legends = << [labels |-> << "first", "second" >>,
                                   handles |-> << "y[:, 0]", "y[:, 1]" >>,
                                   opts |-> "framealpha=1, frameon=True"] >>
    /\ (Ran(184) /\ ShownAt(181) = {} =>
          LET leg == pyplot.arts[pyplot.axs[CurAx(pyplot)].legend_]
          IN  /\ leg.labels = << "first", "second" >>
              /\ Len(pyplot.axs[CurAx(pyplot)].children) = 4
              /\ leg.handles = SubSeq(pyplot.axs[CurAx(pyplot)].children, 1, 2))
    /\ \A p \in ShownAt(217) :
          /\ Len(p[1][1].artists) = 4
          /\ \A i \in 1..Len(p[1][1].legends) : p[1][1].legends[i].labels = Areas
          /\ Len(p[1][1].legends) = 1

\* C9 witness: the cell with the two labelled and the two unlabelled lines has
\* displayed its figure.
C9_Witness == prog = "Legends" /\ ShownAt(181) # {} /\ Ran(184)

\* C10: ax.legend(lines[:2], ['line A', 'line B']) followed by
\* ax.add_artist(Legend(ax, lines[2:], ['line C', 'line D'])) gives an axes
\* with two legends, the first listing lines 0 and 1, the second lines 2 and 3;
\* the second does not replace the first, and each of the four lines is in
\* exactly one legend.
C10_TwoLegends ==
  prog = "Legends" =>
    /\ (Ran(294) /\ ~Ran(301) =>
          /\ Len(ShownLegends(pyplot, refs.ax[1])) = 1
          /\ pyplot.arts[ShownLegends(pyplot, refs.ax[1])[1]].handles = SubSeq(refs.lines, 1, 2))
    /\ (Ran(301) =>
          LET legs == ShownLegends(pyplot, refs.ax[1])
          IN  /\ Len(refs.lines) = 4
              /\ Len(legs) = 2
              /\ pyplot.arts[legs[1]].handles = SubSeq(refs.lines, 1, 2)
              /\ pyplot.arts[legs[1]].labels = << "line A", "line B" >>
              /\ pyplot.arts[legs[2]].handles = SubSeq(refs.lines, 3, 4)
              /\ pyplot.arts[legs[2]].labels = << "line C", "line D" >>
              /\ pyplot.axs[refs.ax[1]].legend_ = legs[1]
              /\ \A i \in 1..4 :
                    Cardinality({ l \in 1..2 : \E j \in DOMAIN pyplot.arts[legs[l]].handles :
                                    pyplot.arts[legs[l]].handles[j] = refs.lines[i] }) = 1
              /\ \A i, j \in 1..4 : i # j => refs.lines[i] # refs.lines[j]
              /\ \A i \in 1..4 : pyplot.arts[refs.lines[i]].axes = refs.ax[1])
    /\ \A p \in ShownAt(282) : Len(p[1][1].legends) = 2 /\ Len(p[1][1].artists) = 4

\* C10 witness: add_artist has run and the cell has displayed the figure with
\* its two legends.
C10_Witness ==
  /\ prog = "Legends"
  /\ Ran(301)
  /\ ShownAt(282) # {}
  /\ Len(ShownLegends(pyplot, refs.ax[1])) = 2

(***************************************************************************)
(* counts, bin_edges = np.histogram(data, bins=5)                          *)
(*                                                                         *)
(* The data are drawn from the integers 0..MaxVal, NPoints of them at most *)
(* (the notebook draws 1000 reals).  The bins divide [min, max] of the     *)
(* data into Bins intervals of equal width; the edges are kept exactly, as *)
(* multiples of 1 / Scale.  When all the data are equal the range is       *)
(* widened by one half on each side.                                       *)
(***************************************************************************)
NPoints == 4
MaxVal == 5
Bins == 5

Scale == 2 * Bins

amin(a) == CHOOSE v \in { a[k] : k \in DOMAIN a } : \A k \in DOMAIN a : v <= a[k]
amax(a) == CHOOSE v \in { a[k] : k \in DOMAIN a } : \A k \in DOMAIN a : v >= a[k]

\* Twice the lower and the upper end of the range of the bins.
First2(a) == IF amin(a) = amax(a) THEN 2 * amin(a) - 1 ELSE 2 * amin(a)
Last2(a)  == IF amin(a) = amax(a) THEN 2 * amax(a) + 1 ELSE 2 * amax(a)

\* Edge i (0..Bins) of the bins, times Scale: linspace(first, last, Bins + 1)
Edge(a, i) == Bins * First2(a) + i * (Last2(a) - First2(a))

\* Mutant of InBin: the last bin is half-open like the others.
InBin_HalfOpen(a, x, i) ==
  Edge(a, i - 1) <= Scale * x /\ Scale * x < Edge(a, i)

\* Whether x falls in bin i (1..Bins): bins are half-open, [edge, next edge),
\* except the last one, which includes its right edge.
InBin(a, x, i) ==
  /\ Edge(a, i - 1) <= Scale * x
  /\ \/ Scale * x < Edge(a, i)
     \/ i = Bins /\ Scale * x = Edge(a, i)

histogram(a) ==
  [counts |-> [i \in 1..Bins |-> Cardinality({ k \in DOMAIN a : InBin(a, a[k], i) })],
   bin_edges |-> [i \in 1..(Bins + 1) |-> Edge(a, i - 1)]]

InitHistogram ==
  /\ data \in UNION { [1..n -> 0..MaxVal] : n \in 1..NPoints }
  /\ counts = << >>
  /\ bin_edges = << >>
  \* no kernel bookkeeping and no plotting session are part of this machine
  /\ notebook = "" /\ cellIx = 0 /\ stmtIx = 0 /\ status = "" /\ user_ns = << >>
  /\ funcs = << >> /\ executed = << >> /\ raised = NoError /\ sharedMut = {}
  /\ prog = "" /\ pc = 0 /\ pyplot = << >> /\ refs = << >> /\ shown = << >>
  /\ book = "" /\ step = 0 /\ canvas = << >> /\ bound = << >> /\ output = << >>
  /\ failure = ""

\* counts, bin_edges = np.histogram(data, bins=5)
Histogram ==
  /\ counts = << >>
  /\ counts' = histogram(data).counts
  /\ bin_edges' = histogram(data).bin_edges
  /\ UNCHANGED << data, kernelVars, plotVars, layoutVars >>

NextHistogram == Histogram

SpecHistogram == InitHistogram /\ [][NextHistogram]_vars

RECURSIVE Sum(_)
Sum(q) == IF q = << >> THEN 0 ELSE q[1] + Sum(Tail(q))

\* The bins, read off the returned edges, that the data point x falls in.
BinsOf(x) ==
  { i \in 1..(Len(bin_edges) - 1) :
      /\ bin_edges[i] <= Scale * x
      /\ \/ Scale * x < bin_edges[i + 1]
         \/ i = Len(bin_edges) - 1 /\ Scale * x = bin_edges[i + 1] }

\* C7: np.histogram(data, bins=5) returns 5 counts and 6 increasing edges that
\* span the data; each count is the number of points falling in its bin, every
\* point falls in exactly one bin, and the counts sum to the number of points.
C7_Histogram ==
  counts # << >> =>
    /\ Len(counts) = Bins
    /\ Len(bin_edges) = Bins + 1
    /\ \A i \in 1..Bins : bin_edges[i] < bin_edges[i + 1]
    /\ \A k \in DOMAIN data :
          bin_edges[1] <= Scale * data[k] /\ Scale * data[k] <= bin_edges[Bins + 1]
    /\ \A k \in DOMAIN data : Cardinality(BinsOf(data[k])) = 1
    /\ \A i \in 1..Bins : counts[i] = Cardinality({ k \in DOMAIN data : i \in BinsOf(data[k]) })
    /\ Sum(counts) = Len(data)

\* C7 witness: a histogram of NPoints points that are not all equal, with
\* points in more than one bin and a point on the last edge.
C7_Witness ==
  /\ counts # << >>
  /\ Len(data) = NPoints
  /\ Cardinality({ i \in 1..Bins : counts[i] > 0 }) > 2
  /\ \E k \in DOMAIN data : Scale * data[k] = bin_edges[Bins + 1]

(***************************************************************************)
(* The layout of figures.                                                  *)
(*                                                                         *)
(* Positions are fractions of the figure, (0, 0) at its bottom left and    *)
(* (1, 1) at its top right.  Numbers are exact rationals [n, d] in lowest  *)
(* terms with d > 0; the rounding of floating point is not modelled.       *)
(***************************************************************************)
RECURSIVE GCD(_, _)
GCD(a, b) == IF b = 0 THEN a ELSE GCD(b, a % b)

Abs(k) == IF k < 0 THEN -k ELSE k

Frac(n, d) ==
  LET s == IF d < 0 THEN -1 ELSE 1
      g == GCD(Abs(n), Abs(d))
  IN  [n |-> (s * n) \div g, d |-> (s * d) \div g]

Whole(k) == Frac(k, 1)
Add(a, b) == Frac(a.n * b.d + b.n * a.d, a.d * b.d)
Sub(a, b) == Frac(a.n * b.d - b.n * a.d, a.d * b.d)
Mul(a, b) == Frac(a.n * b.n, a.d * b.d)
Div(a, b) == Frac(a.n * b.d, a.d * b.n)
Less(a, b) == a.n * b.d < b.n * a.d
LessEq(a, b) == a.n * b.d <= b.n * a.d

\* The subplot parameters of a new figure: left, bottom, right, top of the
\* grid and the spacing between panels as a fraction of the panel size.
\* The notebooks do not set them; they are the library's defaults, which
\* differ between its releases and with the inline backend.
DefaultPars ==
  { [left |-> Frac(125, 1000), bottom |-> b, right |-> Frac(9, 10), top |-> t,
     wspace |-> Frac(2, 10), hspace |-> Frac(2, 10)] :
      << b, t >> \in { << Frac(10, 100), Frac(90, 100) >>,
                       << Frac(11, 100), Frac(88, 100) >>,
                       << Frac(125, 1000), Frac(90, 100) >> } }

\* Where an axes is placed: a rectangle [left, bottom, width, height] given
\* to add_axes, or a span of cells (rows r0..r1, columns c0..c1, counted
\* from 0, row 0 on top) of a rows x cols grid; own: the grid brings its own
\* wspace and hspace.
RectPos(rect) ==
  [kind |-> "rect", rect |-> rect, rows |-> 0, cols |-> 0,
   r0 |-> 0, r1 |-> 0, c0 |-> 0, c1 |-> 0,
   own |-> FALSE, wspace |-> Whole(0), hspace |-> Whole(0)]

SpanPos(rows, cols, r0, r1, c0, c1) ==
  [kind |-> "spec", rect |-> << >>, rows |-> rows, cols |-> cols,
   r0 |-> r0, r1 |-> r1, c0 |-> c0, c1 |-> c1,
   own |-> FALSE, wspace |-> Whole(0), hspace |-> Whole(0)]

\* grid[r0:r1+1, c0:c1+1] of grid = plt.GridSpec(rows, cols, wspace=, hspace=)
GridSpecPos(rows, cols, wspace, hspace, r0, r1, c0, c1) ==
  [SpanPos(rows, cols, r0, r1, c0, c1) EXCEPT !.own = TRUE, !.wspace = wspace,
                                              !.hspace = hspace]

\* Mutant of IndexPos: the panels are numbered down the columns.
IndexPos_ColumnMajor(rows, cols, index) ==
  SpanPos(rows, cols, (index - 1) % rows, (index - 1) % rows,
          (index - 1) \div rows, (index - 1) \div rows)

\* The cell that subplot(rows, cols, index) addresses: the panels are
\* numbered from 1 along the rows, starting with the top row.
IndexPos(rows, cols, index) ==
  SpanPos(rows, cols, (index - 1) \div cols, (index - 1) \div cols,
          (index - 1) % cols, (index - 1) % cols)

\* Mutant of RectBox: the rectangle is read as [left, bottom, right, top].
RectBox_Corners(rect) ==
  [x0 |-> rect[1], y0 |-> rect[2], x1 |-> rect[3], y1 |-> rect[4]]

\* The box of the rectangle [left, bottom, width, height]
RectBox(rect) ==
  [x0 |-> rect[1], y0 |-> rect[2],
   x1 |-> Add(rect[1], rect[3]), y1 |-> Add(rect[2], rect[4])]

\* The box [x0, y0, x1, y1] of the figure that a position occupies under
\* the subplot parameters pars.
Box(pars, pos) ==
  IF pos.kind = "rect"
  THEN RectBox(pos.rect)
  ELSE
    LET ws == IF pos.own THEN pos.wspace ELSE pars.wspace
        hs == IF pos.own THEN pos.hspace ELSE pars.hspace
        cellH == Div(Sub(pars.top, pars.bottom),
                     Add(Whole(pos.rows), Mul(hs, Whole(pos.rows - 1))))
        cellW == Div(Sub(pars.right, pars.left),
                     Add(Whole(pos.cols), Mul(ws, Whole(pos.cols - 1))))
        Top(r) == Sub(pars.top, Mul(Whole(r), Add(cellH, Mul(hs, cellH))))
        Left(c) == Add(pars.left, Mul(Whole(c), Add(cellW, Mul(ws, cellW))))
    IN  [x0 |-> Left(pos.c0), y0 |-> Sub(Top(pos.r1), cellH),
         x1 |-> Add(Left(pos.c1), cellW), y1 |-> Top(pos.r0)]

(***************************************************************************)
(* canvas is the object graph the layout cells build:                      *)
(*   defaults - the subplot parameters a new figure starts with            *)
(*   figs     - the figures: their subplot parameters pars, their axes in  *)
(*              creation order, their current axes cur (0: none)           *)
(*   axs      - the axes: owning figure, position pos, the limits xlim and *)
(*              ylim ([lim |-> << lo, hi >>, auto]; lim = << >> once the   *)
(*              limits were autoscaled to plotted data), the texts placed  *)
(*              in it and what was plotted in it                           *)
(*   managed  - the figures pyplot manages, the last one is the current    *)
(***************************************************************************)
EmptyCanvas(pars) == [defaults |-> pars, figs |-> << >>, axs |-> << >>, managed |-> << >>]

UnitLim == [lim |-> << Whole(0), Whole(1) >>, auto |-> TRUE]
FixedLim(lo, hi) == [lim |-> << lo, hi >>, auto |-> FALSE]

new_figure(w) ==
  [w EXCEPT !.figs = Append(@, [pars |-> w.defaults, axes |-> << >>, cur |-> 0]),
            !.managed = Append(@, Len(w.figs) + 1)]

\* the current figure, created when pyplot manages none
with_figure(w) == IF w.managed = << >> THEN new_figure(w) ELSE w

current_figure(w) == w.managed[Len(w.managed)]

\* fig.add_axes(rect, ...), fig.add_subplot(...): a new axes of figure f at
\* position pos, which becomes the current axes of the figure.
add_axes(w, f, pos, xlim, ylim) ==
  LET a == Len(w.axs) + 1
  IN  [w EXCEPT !.axs = Append(@, [fig |-> f, pos |-> pos, xlim |-> xlim, ylim |-> ylim,
                                   texts |-> << >>, plotted |-> << >>]),
                !.figs[f].axes = Append(@, a),
                !.figs[f].cur = a]

\* the current axes of the current figure, created (the single cell of a
\* 1 x 1 grid) when the figure has none
with_axes(w) ==
  LET v == with_figure(w)
  IN  IF v.figs[current_figure(v)].cur = 0
      THEN add_axes(v, current_figure(v), SpanPos(1, 1, 0, 0, 0, 0), UnitLim, UnitLim)
      ELSE v

current_axes(w) == w.figs[current_figure(w)].cur

\* plt.subplot(...): the axes of the current figure at position pos, created
\* if the figure has none there; it becomes current.
pyplot_subplot(w, pos) ==
  LET v == with_figure(w)
      f == current_figure(v)
      there == { i \in DOMAIN v.figs[f].axes : v.axs[v.figs[f].axes[i]].pos = pos }
  IN  IF there = {}
      THEN add_axes(v, f, pos, UnitLim, UnitLim)
      ELSE [v EXCEPT !.figs[f].cur = v.figs[f].axes[CHOOSE i \in there : TRUE]]

RECURSIVE add_grid(_, _, _, _, _)
\* the panels index..rows*cols of a rows x cols grid added to figure f
add_grid(w, f, rows, cols, index) ==
  IF index > rows * cols THEN w
  ELSE add_grid(add_axes(w, f, IndexPos(rows, cols, index), UnitLim, UnitLim),
                f, rows, cols, index + 1)

\* An array of objects: its shape and its items, row after row.  A single
\* object has the shape << >>.
Scalar(id) == [shape |-> << >>, items |-> << id >>]

\* Mutant of subplots_array: the array is filled column after column.
subplots_array_ByColumn(first, rows, cols) ==
  IF rows = 1 /\ cols = 1 THEN Scalar(first)
  ELSE IF rows = 1 \/ cols = 1
       THEN [shape |-> << rows * cols >>, items |-> [k \in 1..(rows * cols) |-> first + k - 1]]
       ELSE [shape |-> << rows, cols >>,
             items |-> [k \in 1..(rows * cols) |->
                          first + ((k - 1) % cols) * rows + ((k - 1) \div cols)]]

\* The array plt.subplots(rows, cols) returns for the axes first,
\* first + 1, ...: squeezed to a single Axes for a 1 x 1 grid, to one
\* dimension for a single row or column, and else two-dimensional, [row, col].
subplots_array(first, rows, cols) ==
  IF rows = 1 /\ cols = 1 THEN Scalar(first)
  ELSE IF rows = 1 \/ cols = 1
       THEN [shape |-> << rows * cols >>, items |-> [k \in 1..(rows * cols) |-> first + k - 1]]
       ELSE [shape |-> << rows, cols >>,
             items |-> [k \in 1..(rows * cols) |-> first + k - 1]]

\* Whether the index ix (<< >>: none, << i, j >>: [i, j]) is valid for array v.
InArray(v, ix) ==
  /\ Len(ix) = Len(v.shape)
  /\ \A d \in DOMAIN ix : 0 <= ix[d] /\ ix[d] < v.shape[d]

\* v[ix]
Item(v, ix) ==
  IF ix = << >> THEN v.items[1]
  ELSE IF Len(ix) = 1 THEN v.items[ix[1] + 1]
  ELSE v.items[ix[1] * v.shape[2] + ix[2] + 1]

\* ax.text(x, y, s, transform=...)
add_text(w, a, x, y, s, transform) ==
  [w EXCEPT !.axs[a].texts = Append(@, [x |-> x, y |-> y, s |-> s, transform |-> transform])]

\* ax.set_xlim(lo, hi), ax.set_ylim(lo, hi), ax.axis([x0, x1, y0, y1]);
\* << >>: that limit is not given
set_lim(w, a, xlim, ylim) ==
  [w EXCEPT !.axs[a].xlim = IF xlim = << >> THEN @ ELSE FixedLim(xlim[1], xlim[2]),
            !.axs[a].ylim = IF ylim = << >> THEN @ ELSE FixedLim(ylim[1], ylim[2])]

\* ax.plot(...), ax.hist(...): the limits that were not set are autoscaled to
\* the data.
draw(w, a, what) ==
  [w EXCEPT !.axs[a].plotted = Append(@, what),
            !.axs[a].xlim = IF @.auto THEN [lim |-> << >>, auto |-> TRUE] ELSE @,
            !.axs[a].ylim = IF @.auto THEN [lim |-> << >>, auto |-> TRUE] ELSE @]

\* ax.invert_xaxis(), ax.invert_yaxis()
invert(w, a, which) ==
  LET Swap(l) == IF l.lim = << >> THEN [l EXCEPT !.auto = FALSE]
                 ELSE FixedLim(l.lim[2], l.lim[1])
  IN  IF which = "x" THEN [w EXCEPT !.axs[a].xlim = Swap(@)]
      ELSE [w EXCEPT !.axs[a].ylim = Swap(@)]

\* fig.subplots_adjust(hspace=, wspace=)
subplots_adjust(w, f, hspace, wspace) ==
  [w EXCEPT !.figs[f].pars.hspace = hspace, !.figs[f].pars.wspace = wspace]

\* Where a coordinate lands between the ends p0 and p1 of the axes box when
\* the axis shows lim[1]..lim[2]
Along(p0, p1, lim, c) ==
  Add(p0, Mul(Div(Sub(c, lim[1]), Sub(lim[2], lim[1])), Sub(p1, p0)))

\* Mutant of Place: every text is placed by the data transform.
Place_AllData(w, a, t) ==
  LET b == Box(w.figs[w.axs[a].fig].pars, w.axs[a].pos)
  IN  << Along(b.x0, b.x1, w.axs[a].xlim.lim, t.x),
         Along(b.y0, b.y1, w.axs[a].ylim.lim, t.y) >>

\* The position on the figure of text t of axes a: transData maps the limits
\* of the axes to its box, transAxes maps 0..1 to the box, transFigure is the
\* position itself.
Place(w, a, t) ==
  LET b == Box(w.figs[w.axs[a].fig].pars, w.axs[a].pos)
      unit == << Whole(0), Whole(1) >>
  IN  CASE t.transform = "transData" ->
             << Along(b.x0, b.x1, w.axs[a].xlim.lim, t.x),
                Along(b.y0, b.y1, w.axs[a].ylim.lim, t.y) >>
        [] t.transform = "transAxes" ->
             << Along(b.x0, b.x1, unit, t.x), Along(b.y0, b.y1, unit, t.y) >>
        [] t.transform = "transFigure" -> << t.x, t.y >>

\* The figure as displayed: the box of each axes and its texts where they land.
Drawing(w, f) ==
  [i \in DOMAIN w.figs[f].axes |->
     LET a == w.figs[f].axes[i]
     IN  [box |-> Box(w.figs[f].pars, w.axs[a].pos),
          texts |-> [k \in DOMAIN w.axs[a].texts |->
                       [s |-> w.axs[a].texts[k].s, at |-> Place(w, a, w.axs[a].texts[k])]]]]

(***************************************************************************)
(* The layout cells of the notebooks, as the sequence of their calls (a    *)
(* loop is unrolled, its iterations share the lines of the calls):         *)
(*   line - source line of the call      op   - what is called             *)
(*   on   - the notebook variable it is called on ("": pyplot)             *)
(*   ix   - the index applied to that variable (<< >>: none)               *)
(*   args - the arguments                bind - the variable assigned      *)
(***************************************************************************)
Call(line, op, on, ix, args, bind) ==
  [line |-> line, op |-> op, on |-> on, ix |-> ix, args |-> args, bind |-> bind]

NoArgs == [none |-> TRUE]

\* str((a, b, c)), str((a, b))
str3(a, b, c) == "(" \o ToString(a) \o ", " \o ToString(b) \o ", " \o ToString(c) \o ")"
str2(a, b) == "(" \o ToString(a) \o ", " \o ToString(b) \o ")"

TextArgs(x, y, s, transform) == [x |-> x, y |-> y, s |-> s, transform |-> transform]

Half == Frac(1, 2)

\* for i in range(1, 7): plt.subplot(2, 3, i); plt.text(0.5, 0.5, str((2, 3, i)), ...)
SubplotLoop ==
  [k \in 1..12 |->
     IF k % 2 = 1
     THEN Call(120, "plt.subplot", "", << >>, [pos |-> IndexPos(2, 3, (k + 1) \div 2)], "")
     ELSE Call(121, "plt.text", "", << >>,
               TextArgs(Half, Half, str3(2, 3, k \div 2), "transData"), "")]

\* for i in range(1, 7): ax = fig.add_subplot(2, 3, i); ax.text(0.5, 0.5, str((2, 3, i)), ...)
AddSubplotLoop ==
  [k \in 1..12 |->
     IF k % 2 = 1
     THEN Call(147, "fig.add_subplot", "fig", << >>,
               [pos |-> IndexPos(2, 3, (k + 1) \div 2)], "ax")
     ELSE Call(148, "ax.text", "ax", << >>,
               TextArgs(Half, Half, str3(2, 3, k \div 2), "transData"), "")]

\* for i in range(2): for j in range(3): ax[i, j].text(0.5, 0.5, str((i, j)), ...)
ArrayLoop ==
  [k \in 1..6 |->
     Call(208, "ax.text", "ax", << (k - 1) \div 3, (k - 1) % 3 >>,
          TextArgs(Half, Half, str2((k - 1) \div 3, (k - 1) % 3), "transData"), "")]

SubplotsLayout ==
  << Call(57, "plt.axes", "", << >>, [pos |-> SpanPos(1, 1, 0, 0, 0, 0)], "ax1"),
     Call(58, "plt.axes", "", << >>,
          [pos |-> RectPos(<< Frac(65, 100), Frac(65, 100), Frac(2, 10), Frac(2, 10) >>)],
          "ax2"),
     Call(57, "end of cell", "", << >>, NoArgs, ""),
     Call(79, "plt.figure", "", << >>, NoArgs, "fig"),
     Call(80, "fig.add_axes", "fig", << >>,
          [pos |-> RectPos(<< Frac(1, 10), Frac(5, 10), Frac(8, 10), Frac(4, 10) >>),
           ylim |-> << Frac(-12, 10), Frac(12, 10) >>], "ax1"),
     Call(82, "fig.add_axes", "fig", << >>,
          [pos |-> RectPos(<< Frac(1, 10), Frac(1, 10), Frac(8, 10), Frac(4, 10) >>),
           ylim |-> << Frac(-12, 10), Frac(12, 10) >>], "ax2"),
     Call(86, "ax.plot", "ax1", << >>, [what |-> "np.sin(x)"], ""),
     Call(87, "ax.plot", "ax2", << >>, [what |-> "np.cos(x)"], ""),
     Call(79, "end of cell", "", << >>, NoArgs, "") >>
  \o SubplotLoop
  \o
  << Call(119, "end of cell", "", << >>, NoArgs, ""),
     Call(144, "plt.figure", "", << >>, NoArgs, "fig"),
     Call(145, "fig.subplots_adjust", "fig", << >>,
          [hspace |-> Frac(4, 10), wspace |-> Frac(4, 10)], "") >>
  \o AddSubplotLoop
  \o
  << Call(144, "end of cell", "", << >>, NoArgs, ""),
     Call(183, "plt.subplots", "", << >>, [rows |-> 2, cols |-> 3], "fig, ax"),
     Call(183, "end of cell", "", << >>, NoArgs, "") >>
  \o ArrayLoop
  \o
  << Call(210, "fig", "fig", << >>, NoArgs, ""),
     Call(205, "end of cell", "", << >>, NoArgs, ""),
     \* grid = plt.GridSpec(2, 3, wspace=0.4, hspace=0.3), line 242
     Call(263, "plt.subplot", "", << >>,
          [pos |-> GridSpecPos(2, 3, Frac(4, 10), Frac(3, 10), 0, 0, 0, 0)], ""),
     Call(264, "plt.subplot", "", << >>,
          [pos |-> GridSpecPos(2, 3, Frac(4, 10), Frac(3, 10), 0, 0, 1, 2)], ""),
     Call(265, "plt.subplot", "", << >>,
          [pos |-> GridSpecPos(2, 3, Frac(4, 10), Frac(3, 10), 1, 1, 0, 1)], ""),
     Call(266, "plt.subplot", "", << >>,
          [pos |-> GridSpecPos(2, 3, Frac(4, 10), Frac(3, 10), 1, 1, 2, 2)], ""),
     Call(263, "end of cell", "", << >>, NoArgs, ""),
     Call(294, "plt.figure", "", << >>, NoArgs, "fig"),
     \* grid = plt.GridSpec(4, 4, hspace=0.2, wspace=0.2), line 295
     Call(296, "fig.add_subplot", "fig", << >>,
          [pos |-> GridSpecPos(4, 4, Frac(2, 10), Frac(2, 10), 0, 2, 1, 3)], "main_ax"),
     Call(297, "fig.add_subplot", "fig", << >>,
          [pos |-> GridSpecPos(4, 4, Frac(2, 10), Frac(2, 10), 0, 2, 0, 0)], "y_hist"),
     Call(298, "fig.add_subplot", "fig", << >>,
          [pos |-> GridSpecPos(4, 4, Frac(2, 10), Frac(2, 10), 3, 3, 1, 3)], "x_hist"),
     Call(301, "ax.plot", "main_ax", << >>, [what |-> "x, y"], ""),
     Call(304, "ax.plot", "x_hist", << >>, [what |-> "hist(x)"], ""),
     Call(306, "ax.invert", "x_hist", << >>, [which |-> "y"], ""),
     Call(308, "ax.plot", "y_hist", << >>, [what |-> "hist(y)"], ""),
     Call(310, "ax.invert", "y_hist", << >>, [which |-> "x"], ""),
     Call(288, "end of cell", "", << >>, NoArgs, "") >>

TextAnnotationLayout ==
  << Call(509, "plt.subplots", "", << >>, [rows |-> 1, cols |-> 1], "fig, ax"),
     Call(510, "ax.set_lim", "ax", << >>,
          [xlim |-> << Whole(0), Whole(10) >>, ylim |-> << Whole(0), Whole(10) >>], ""),
     Call(513, "ax.text", "ax", << >>,
          TextArgs(Whole(1), Whole(5), ". Data: (1, 5)", "transData"), ""),
     Call(514, "ax.text", "ax", << >>,
          TextArgs(Frac(5, 10), Frac(1, 10), ". Axes: (0.5, 0.1)", "transAxes"), ""),
     Call(515, "ax.text", "ax", << >>,
          TextArgs(Frac(2, 10), Frac(2, 10), ". Figure: (0.2, 0.2)", "transFigure"), ""),
     Call(509, "end of cell", "", << >>, NoArgs, ""),
     Call(542, "ax.set_lim", "ax", << >>,
          [xlim |-> << Whole(0), Whole(2) >>, ylim |-> << >>], ""),
     Call(543, "ax.set_lim", "ax", << >>,
          [xlim |-> << >>, ylim |-> << Whole(-6), Whole(6) >>], ""),
     Call(544, "fig", "fig", << >>, NoArgs, ""),
     Call(542, "end of cell", "", << >>, NoArgs, "") >>

LayoutNames == { "Subplots", "TextAnnotation" }

Layout(n) ==
  CASE n = "Subplots"       -> SubplotsLayout
    [] n = "TextAnnotation" -> TextAnnotationLayout
    [] OTHER                -> << >>

(***************************************************************************)
(* The layout cells as a state machine: one action per kind of call.       *)
(***************************************************************************)
Now == Layout(book)[step]

Calls(name) == failure = "" /\ step \in DOMAIN Layout(book) /\ Now.op = name

\* name = value
Bind(name, value) == [n \in DOMAIN bound \cup { name } |-> IF n = name THEN value ELSE bound[n]]

\* the object a call is made on
Target == Item(bound[Now.on], Now.ix)

InitLayout ==
  /\ book \in LayoutNames
  /\ step = 1
  /\ canvas \in { EmptyCanvas(p) : p \in DefaultPars }
  /\ bound = << >>
  /\ output = << >>
  /\ failure = ""
  \* no kernel bookkeeping, no plotting session and no histogram call are part
  \* of this machine
  /\ notebook = "" /\ cellIx = 0 /\ stmtIx = 0 /\ status = "" /\ user_ns = << >>
  /\ funcs = << >> /\ executed = << >> /\ raised = NoError /\ sharedMut = {}
  /\ prog = "" /\ pc = 0 /\ pyplot = << >> /\ refs = << >> /\ shown = << >>
  /\ data = << >> /\ counts = << >> /\ bin_edges = << >>

\* fig = plt.figure()
Figure ==
  /\ Calls("plt.figure")
  /\ canvas' = new_figure(canvas)
  /\ bound' = Bind("fig", Scalar(current_figure(canvas')))
  /\ step' = step + 1
  /\ UNCHANGED << book, output, failure, kernelVars, plotVars, histVars >>

\* ax1 = plt.axes(); ax2 = plt.axes([left, bottom, width, height])
PltAxes ==
  /\ Calls("plt.axes")
  /\ LET v == with_figure(canvas)
     IN  canvas' = add_axes(v, current_figure(v), Now.args.pos, UnitLim, UnitLim)
  /\ bound' = Bind(Now.bind, Scalar(Len(canvas'.axs)))
  /\ step' = step + 1
  /\ UNCHANGED << book, output, failure, kernelVars, plotVars, histVars >>

\* ax1 = fig.add_axes([left, bottom, width, height], ylim=(lo, hi))
FigAddAxes ==
  /\ Calls("fig.add_axes")
  /\ canvas' = add_axes(canvas, Target, Now.args.pos, UnitLim,
                        FixedLim(Now.args.ylim[1], Now.args.ylim[2]))
  /\ bound' = Bind(Now.bind, Scalar(Len(canvas'.axs)))
  /\ step' = step + 1
  /\ UNCHANGED << book, output, failure, kernelVars, plotVars, histVars >>

\* plt.subplot(rows, cols, index); plt.subplot(grid[...])
PySubplot ==
  /\ Calls("plt.subplot")
  /\ canvas' = pyplot_subplot(canvas, Now.args.pos)
  /\ step' = step + 1
  /\ UNCHANGED << book, bound, output, failure, kernelVars, plotVars, histVars >>

\* ax = fig.add_subplot(rows, cols, index); main_ax = fig.add_subplot(grid[...])
FigAddSubplot ==
  /\ Calls("fig.add_subplot")
  /\ canvas' = add_axes(canvas, Target, Now.args.pos, UnitLim, UnitLim)
  /\ bound' = Bind(Now.bind, Scalar(Len(canvas'.axs)))
  /\ step' = step + 1
  /\ UNCHANGED << book, output, failure, kernelVars, plotVars, histVars >>

\* fig.subplots_adjust(hspace=0.4, wspace=0.4)
SubplotsAdjust ==
  /\ Calls("fig.subplots_adjust")
  /\ canvas' = subplots_adjust(canvas, Target, Now.args.hspace, Now.args.wspace)
  /\ step' = step + 1
  /\ UNCHANGED << book, bound, output, failure, kernelVars, plotVars, histVars >>

\* fig, ax = plt.subplots(rows, cols)
SubplotsGrid ==
  /\ Calls("plt.subplots")
  /\ LET v == new_figure(canvas)
     IN  /\ canvas' = add_grid(v, current_figure(v), Now.args.rows, Now.args.cols, 1)
         /\ bound' = [n \in DOMAIN bound \cup { "fig", "ax" } |->
                        CASE n = "fig" -> Scalar(current_figure(v))
                          [] n = "ax"  -> subplots_array(Len(canvas.axs) + 1,
                                                         Now.args.rows, Now.args.cols)
                          [] OTHER     -> bound[n]]
  /\ step' = step + 1
  /\ UNCHANGED << book, output, failure, kernelVars, plotVars, histVars >>

\* plt.text(x, y, s): the text goes to the current axes
PltText ==
  /\ Calls("plt.text")
  /\ LET v == with_axes(canvas)
     IN  canvas' = add_text(v, current_axes(v), Now.args.x, Now.args.y, Now.args.s,
                            Now.args.transform)
  /\ step' = step + 1
  /\ UNCHANGED << book, bound, output, failure, kernelVars, plotVars, histVars >>

\* ax.text(x, y, s, transform=...); ax[i, j].text(x, y, s): an index outside
\* the array raises IndexError
AxText ==
  /\ Calls("ax.text")
  /\ IF InArray(bound[Now.on], Now.ix)
     THEN /\ canvas' = add_text(canvas, Target, Now.args.x, Now.args.y, Now.args.s,
                                Now.args.transform)
          /\ step' = step + 1
          /\ UNCHANGED failure
     ELSE /\ failure' = "IndexError"
          /\ UNCHANGED << canvas, step >>
  /\ UNCHANGED << book, bound, output, kernelVars, plotVars, histVars >>

\* ax1.plot(...), x_hist.hist(...)
AxDraw ==
  /\ Calls("ax.plot")
  /\ canvas' = draw(canvas, Target, Now.args.what)
  /\ step' = step + 1
  /\ UNCHANGED << book, bound, output, failure, kernelVars, plotVars, histVars >>

\* ax.axis([x0, x1, y0, y1]); ax.set_xlim(lo, hi); ax.set_ylim(lo, hi)
AxSetLim ==
  /\ Calls("ax.set_lim")
  /\ canvas' = set_lim(canvas, Target, Now.args.xlim, Now.args.ylim)
  /\ step' = step + 1
  /\ UNCHANGED << book, bound, output, failure, kernelVars, plotVars, histVars >>

\* x_hist.invert_yaxis(); y_hist.invert_xaxis()
AxInvert ==
  /\ Calls("ax.invert")
  /\ canvas' = invert(canvas, Target, Now.args.which)
  /\ step' = step + 1
  /\ UNCHANGED << book, bound, output, failure, kernelVars, plotVars, histVars >>

\* fig, as the last expression of a cell: the figure is displayed
ShowFigure ==
  /\ Calls("fig")
  /\ output' = Append(output, [at |-> Now.line, drawings |-> << Drawing(canvas, Target) >>])
  /\ step' = step + 1
  /\ UNCHANGED << book, canvas, bound, failure, kernelVars, plotVars, histVars >>

\* The cell that starts on this line ends: the inline backend displays every
\* figure pyplot manages and closes it.
CellEnd ==
  /\ Calls("end of cell")
  /\ output' = IF canvas.managed = << >> THEN output
               ELSE Append(output, [at |-> Now.line,
                                    drawings |-> [i \in DOMAIN canvas.managed |->
                                        Drawing(canvas, canvas.managed[i])]])
  /\ canvas' = [canvas EXCEPT !.managed = << >>]
  /\ step' = step + 1
  /\ UNCHANGED << book, bound, failure, kernelVars, plotVars, histVars >>

NextLayout ==
  \/ Figure \/ PltAxes \/ FigAddAxes \/ PySubplot \/ FigAddSubplot \/ SubplotsAdjust
  \/ SubplotsGrid \/ PltText \/ AxText \/ AxDraw \/ AxSetLim \/ AxInvert
  \/ ShowFigure \/ CellEnd

SpecLayout == InitLayout /\ [][NextLayout]_vars

(***************************************************************************)
(* Properties of the layout.                                               *)
(***************************************************************************)
\* The drawings displayed by the operation at this line.
OutAt(line) == { output[i].drawings : i \in { j \in DOMAIN output : output[j].at = line } }

\* Every call of the layout cells written on this line has run.
Done(line) ==
  LET calls == { i \in DOMAIN Layout(book) :
                   Layout(book)[i].line = line /\ Layout(book)[i].op # "end of cell" }
  IN  calls # {} /\ \A i \in calls : i < step

\* C11: changing the axes limits moves only the text anchored in data
\* coordinates: between the figure displayed by the cell that places the three
\* texts and the figure displayed after ax.set_xlim(0, 2); ax.set_ylim(-6, 6)
\* the transData text has moved, the transAxes text stays at (0.5, 0.1) of the
\* axes box and the transFigure text at (0.2, 0.2) of the figure.
C11_OnlyDataTextMoves ==
  book = "TextAnnotation" =>
    /\ \A p \in OutAt(509), q \in OutAt(544) :
          /\ Len(p) = 1 /\ Len(q) = 1 /\ Len(p[1]) = 1 /\ Len(q[1]) = 1
          /\ p[1][1].box = q[1][1].box
          /\ p[1][1].texts[1].s = ". Data: (1, 5)" /\ q[1][1].texts[1].s = ". Data: (1, 5)"
          /\ p[1][1].texts[1].at[1] # q[1][1].texts[1].at[1]
          /\ p[1][1].texts[1].at[2] # q[1][1].texts[1].at[2]
          /\ p[1][1].texts[2] = q[1][1].texts[2]
          /\ p[1][1].texts[3] = q[1][1].texts[3]
    /\ \A p \in OutAt(509) \cup OutAt(544) :
          LET b == p[1][1].box
          IN  /\ p[1][1].texts[2].s = ". Axes: (0.5, 0.1)"
              /\ p[1][1].texts[2].at
                   = << Add(b.x0, Mul(Frac(5, 10), Sub(b.x1, b.x0))),
                        Add(b.y0, Mul(Frac(1, 10), Sub(b.y1, b.y0))) >>
              /\ p[1][1].texts[3].s = ". Figure: (0.2, 0.2)"
              /\ p[1][1].texts[3].at = << Frac(2, 10), Frac(2, 10) >>
    /\ (Done(515) =>
          LET a == Item(bound["ax"], << >>)
              t == canvas.axs[a].texts
              b == Box(canvas.figs[canvas.axs[a].fig].pars, canvas.axs[a].pos)
          IN  /\ (~Done(542) =>
                    Place(canvas, a, t[1])
                      = << Add(b.x0, Mul(Frac(1, 10), Sub(b.x1, b.x0))),
                           Add(b.y0, Mul(Frac(5, 10), Sub(b.y1, b.y0))) >>)
              /\ (Done(543) =>
                    Place(canvas, a, t[1])
                      = << Add(b.x0, Mul(Frac(1, 2), Sub(b.x1, b.x0))),
                           Add(b.y0, Mul(Frac(11, 12), Sub(b.y1, b.y0))) >>))

\* C11 witness: both figures have been displayed, the second one after the
\* limits were changed to 0..2 and -6..6.
C11_Witness ==
  /\ book = "TextAnnotation"
  /\ OutAt(509) # {} /\ OutAt(544) # {}
  /\ canvas.axs[Item(bound["ax"], << >>)].xlim.lim = << Whole(0), Whole(2) >>
  /\ canvas.axs[Item(bound["ax"], << >>)].ylim.lim = << Whole(-6), Whole(6) >>

Center(b) == << Mul(Frac(1, 2), Add(b.x0, b.x1)), Mul(Frac(1, 2), Add(b.y0, b.y1)) >>

InsideFigure(b) ==
  /\ LessEq(Whole(0), b.x0) /\ Less(b.x0, b.x1) /\ LessEq(b.x1, Whole(1))
  /\ LessEq(Whole(0), b.y0) /\ Less(b.y0, b.y1) /\ LessEq(b.y1, Whole(1))

\* The panels of a displayed figure run from the upper left to the bottom
\* right of a grid with cols columns: a later panel of the same row lies to
\* the right at the same height, a panel of a later row lies below, and the
\* panels of a column share their left and right edges.
RunsFromUpperLeft(f, cols) ==
  \A k, m \in DOMAIN f :
    /\ InsideFigure(f[k].box)
    /\ (k < m /\ (k - 1) \div cols = (m - 1) \div cols =>
          /\ Less(f[k].box.x1, f[m].box.x0)
          /\ f[k].box.y0 = f[m].box.y0 /\ f[k].box.y1 = f[m].box.y1)
    /\ ((k - 1) \div cols < (m - 1) \div cols => Less(f[m].box.y1, f[k].box.y0))
    /\ ((k - 1) % cols = (m - 1) % cols =>
          f[k].box.x0 = f[m].box.x0 /\ f[k].box.x1 = f[m].box.x1)

\* The plain grid panels (no GridSpec of their own) of a figure, in creation order.
GridPanels(f) ==
  LET Plain(a) == canvas.axs[a].pos.kind = "spec" /\ ~canvas.axs[a].pos.own
  IN  SelectSeq(canvas.figs[f].axes, Plain)

\* C12: plt.subplot(rows, cols, index) and fig.add_subplot(rows, cols, index)
\* number the panels from 1, from the upper left to the bottom right: index i
\* is the panel in row (i - 1) div cols and column (i - 1) mod cols.  Each of
\* the two loops over i in 1..6 on the 2 x 3 grid gives a figure with six
\* distinct panels, one in every cell of the grid, panel i carrying the one
\* text (2, 3, i) at its centre.
C12_PanelNumbering ==
  book = "Subplots" =>
    /\ \A p \in OutAt(119) \cup OutAt(144) :
          /\ Len(p) = 1
          /\ Len(p[1]) = 6
          /\ RunsFromUpperLeft(p[1], 3)
          /\ \A k \in 1..6 :
                p[1][k].texts = << [s |-> str3(2, 3, k), at |-> Center(p[1][k].box)] >>
          /\ \A k, m \in 1..6 : k # m => p[1][k].box # p[1][m].box
    /\ \A f \in DOMAIN canvas.figs :
          \A k \in DOMAIN GridPanels(f) :
             LET pos == canvas.axs[GridPanels(f)[k]].pos
             IN  pos.rows * pos.cols > 1 =>
                   /\ pos.r0 = (k - 1) \div pos.cols /\ pos.r1 = pos.r0
                   /\ pos.c0 = (k - 1) % pos.cols /\ pos.c1 = pos.c0
    /\ ((Done(121) /\ OutAt(119) = {}) \/ (Done(148) /\ OutAt(144) = {}) =>
          LET ps == GridPanels(current_figure(canvas))
          IN  { << canvas.axs[ps[k]].pos.r0, canvas.axs[ps[k]].pos.c0 >> : k \in DOMAIN ps }
                = (0..1) \X (0..2) /\ Len(ps) = 6)

\* C12 witness: both loops have run and displayed their six panels.
C12_Witness ==
  /\ book = "Subplots"
  /\ OutAt(119) # {} /\ OutAt(144) # {}
  /\ Done(121) /\ Done(148)

\* C13: plt.subplots(2, 3) returns the grid as a two-dimensional array
\* indexed [row, col] from 0: ax[i, j] is the panel in row i and column j, the
\* one plt.subplot(2, 3, 3 * i + j + 1) addresses; the nested loop over i in
\* 0..1 and j in 0..2 never indexes outside the array and writes the label
\* (i, j) once, into the axes at row i and column j, so that every one of the
\* six axes gets exactly one label.
C13_ArrayIndexing ==
  book = "Subplots" =>
    /\ failure = ""
    /\ (Done(183) =>
          LET ax == bound["ax"]
          IN  /\ ax.shape = << 2, 3 >>
              /\ Len(ax.items) = 6
              /\ \A k, m \in 1..6 : k # m => ax.items[k] # ax.items[m]
              /\ \A i \in 0..1, j \in 0..2 :
                    /\ InArray(ax, << i, j >>)
                    /\ canvas.axs[Item(ax, << i, j >>)].fig = canvas.axs[ax.items[1]].fig
                    /\ canvas.axs[Item(ax, << i, j >>)].pos = IndexPos(2, 3, 3 * i + j + 1)
                    /\ canvas.axs[Item(ax, << i, j >>)].pos.r0 = i
                    /\ canvas.axs[Item(ax, << i, j >>)].pos.c0 = j
                    /\ canvas.axs[Item(ax, << i, j >>)].texts \in
                         { << >>,
                           << [x |-> Half, y |-> Half, s |-> str2(i, j),
                               transform |-> "transData"] >> }
                    /\ (Done(208) => canvas.axs[Item(ax, << i, j >>)].texts # << >>)
              /\ \A a \in DOMAIN canvas.axs :
                    canvas.axs[a].fig = canvas.axs[ax.items[1]].fig =>
                       \E i \in 0..1, j \in 0..2 : Item(ax, << i, j >>) = a)
    /\ \A p \in OutAt(210) :
          /\ Len(p) = 1 /\ Len(p[1]) = 6
          /\ RunsFromUpperLeft(p[1], 3)
          /\ \A i \in 0..1, j \in 0..2 :
                p[1][3 * i + j + 1].texts
                  = << [s |-> str2(i, j), at |-> Center(p[1][3 * i + j + 1].box)] >>

\* C13 witness: the nested loop has labelled the six axes and the figure has
\* been displayed.
C13_Witness ==
  /\ book = "Subplots"
  /\ Done(208)
  /\ OutAt(210) # {}
  /\ failure = ""
  /\ bound["ax"].shape = << 2, 3 >>

\* C14: the two axes added with fig.add_axes([0.1, 0.5, 0.8, 0.4]) and
\* fig.add_axes([0.1, 0.1, 0.8, 0.4]) are just touching: the bottom of the
\* upper panel, 0.5, is the top of the lower panel, 0.1 + 0.4; they have the
\* same left edge and the same width, they do not overlap, and both lie
\* inside the figure.
C14_JustTouching ==
  book = "Subplots" =>
    /\ (Done(82) =>
          LET a1 == Item(bound["ax1"], << >>)
              a2 == Item(bound["ax2"], << >>)
              upper == Box(canvas.figs[canvas.axs[a1].fig].pars, canvas.axs[a1].pos)
              lower == Box(canvas.figs[canvas.axs[a2].fig].pars, canvas.axs[a2].pos)
          IN  /\ a1 # a2
              /\ canvas.axs[a1].fig = canvas.axs[a2].fig
              /\ upper.y0 = Frac(5, 10)
              /\ lower.y1 = Add(Frac(1, 10), Frac(4, 10))
              /\ upper.y0 = lower.y1
              /\ upper.x0 = lower.x0
              /\ Sub(upper.x1, upper.x0) = Sub(lower.x1, lower.x0)
              /\ Sub(upper.x1, upper.x0) = Frac(8, 10)
              /\ Less(lower.y0, lower.y1) /\ Less(upper.y0, upper.y1)
              /\ InsideFigure(upper) /\ InsideFigure(lower))
    /\ \A p \in OutAt(79) :
          /\ Len(p) = 1 /\ Len(p[1]) = 2
          /\ p[1][1].box.y0 = p[1][2].box.y1
          /\ p[1][1].box.x0 = p[1][2].box.x0 /\ p[1][1].box.x1 = p[1][2].box.x1
          /\ InsideFigure(p[1][1].box) /\ InsideFigure(p[1][2].box)

\* C14 witness: both axes have been added and plotted in, and the figure has
\* been displayed.
C14_Witness ==
  /\ book = "Subplots"
  /\ Done(82) /\ Done(87)
  /\ OutAt(79) # {}
  /\ canvas.axs[Item(bound["ax1"], << >>)].pos.kind = "rect"

SpecKernel == InitKernel /\ [][NextKernel]_vars
=============================================================================
